---- MODULE Spec2Model ----
(***************************************************************************)
(* WanderWord: the multi-provider dispatch layer (services/aiProvider.ts), *)
(* the CLI-agent relay (server/api.ts), the command-line tool              *)
(* (cli/etymology.ts) and the search UI (App.tsx, SearchInput.tsx).        *)
(*                                                                         *)
(* Three specifications share the module:                                  *)
(*   SpecText  the JSON extraction applied to bounded raw responses;       *)
(*   Spec      one dispatch through fetchWordJourney, its adapter, and     *)
(*             for the CLI agents the relay and its subprocess;            *)
(*   SpecUI    the search form and the App's request life cycle.           *)
(***************************************************************************)
EXTENDS Integers, Sequences, FiniteSets, TLC

\* ------------------------------------------------------------------ bounds
\* Longest raw response text, in tokens.
MaxLen == 5
\* Most 'data' events (stdout and stderr together) of one subprocess.
MaxChunks == 2
\* Most fetchWordJourney calls the explored UI runs keep pending at once.
MaxInFlight == 2
\* How many of the suggestion buttons (the first ones) are clicked.
MaxSuggestions == 2
\* The cli-agent requests the relay handles at the same time.
MaxRequests == 2
\* Most model-list fetches of the settings panel pending at once.
MaxTagFetches == 2

\* ------------------------------------------------------------ raw response
\* A raw response is a sequence of tokens.  "{" and "}" are the brace
\* characters, "k" is a member key with its colon ("k":), "n" is a scalar JSON
\* literal (a number), "p" is any character that is not JSON (prose, a
\* markdown fence).
Tokens == {"{", "}", "k", "n", "p"}

RECURSIVE TextsOfLen(_)
TextsOfLen(n) ==
    IF n = 0 THEN {<<>>}
    ELSE {Append(t, c) : t \in TextsOfLen(n - 1), c \in Tokens}

Texts == UNION {TextsOfLen(n) : n \in 0..MaxLen}

NoVal == <<>>

\* The outcome of a promise or of a call: a returned value or a thrown Error.
Returned(v) == [kind |-> "result", val |-> v, err |-> "none"]
Thrown(m)   == [kind |-> "error", val |-> NoVal, err |-> m]

\* In the texts a backend answers with, "j" is the member key "journey":,
\* "[" and "]" are the brackets of its array and "o1", "o2", "o3" are waypoint
\* objects whose order member is 1, 2, 3.
OrderTokens == {"o1", "o2", "o3"}

\* JSON.parse on a token text.  The grammar is
\*   Value ::= "n" | "{" "}" | "{" "k" Value "}" | "{" "j" "[" Waypoint* "]" "}"
\* and the parsed value is the flattened structure: "num" for a scalar,
\* "obj" for each object level, and "obj", "journey" followed by the
\* waypoints for an object with a journey.  Anything else throws a
\* SyntaxError.
RECURSIVE JSONparse(_)
JSONparse(s) ==
    IF s = <<"n">> THEN Returned(<<"num">>)
    ELSE IF s = <<"{", "}">> THEN Returned(<<"obj">>)
    ELSE IF /\ Len(s) >= 5
            /\ SubSeq(s, 1, 3) = <<"{", "j", "[">>
            /\ SubSeq(s, Len(s) - 1, Len(s)) = <<"]", "}">>
            /\ \A i \in 4..(Len(s) - 2) : s[i] \in OrderTokens
         THEN Returned(<<"obj", "journey">> \o SubSeq(s, 4, Len(s) - 2))
    ELSE IF Len(s) >= 4 /\ s[1] = "{" /\ s[2] = "k" /\ s[Len(s)] = "}"
         THEN LET inner == JSONparse(SubSeq(s, 3, Len(s) - 1))
              IN  IF inner.kind = "result"
                  THEN Returned(<<"obj">> \o inner.val)
                  ELSE Thrown("SyntaxError")
    ELSE Thrown("SyntaxError")

Positions(text, c) == {i \in 1..Len(text) : text[i] = c}

Min(S) == CHOOSE x \in S : \A y \in S : x <= y
Max(S) == CHOOSE x \in S : \A y \in S : x >= y

\* text.match(/\{[\s\S]*\}/): the leftmost "{" that has a "}" after it, and,
\* the star being greedy, everything up to the last "}" of the text.  <<>>
\* stands for null (no match); a match is never empty.
jsonMatch(text) ==
    LET opens  == Positions(text, "{")
        closes == Positions(text, "}")
    IN  IF opens = {} \/ closes = {} \/ Max(closes) < Min(opens)
        THEN <<>>
        ELSE SubSeq(text, Min(opens), Max(closes))

\* The extraction of fetchWordJourneyAnthropic, fetchWordJourneyOllama,
\* fetchWordJourneyCLI and the tool's extractJson: match, then JSON.parse.
extractJson(text, noMatchMsg) ==
    IF jsonMatch(text) = <<>> THEN Thrown(noMatchMsg)
    ELSE JSONparse(jsonMatch(text))

RegexAdapters == {"anthropic-api", "ollama", "cli", "tool"}
DirectParseAdapters == {"gemini-api", "openai-api"}
Extractors == RegexAdapters \cup DirectParseAdapters

NoMatchMessage(who) ==
    CASE who = "anthropic-api" -> "No valid JSON in Anthropic response"
      [] who = "ollama"        -> "No valid JSON in Ollama response"
      [] who = "cli"           -> "No valid JSON in response"
      [] who = "tool"          -> "No valid JSON found in response"

\* What each adapter makes of the raw text of a successful response.
\* fetchWordJourneyGeminiAPI and fetchWordJourneyOpenAI hand the whole text to
\* JSON.parse; the others extract by the regular expression first.
AdapterParse(who, text) ==
    IF who \in DirectParseAdapters THEN JSONparse(text)
    ELSE extractJson(text, NoMatchMessage(who))

\* ------------------------------------------------- the tool's callCliAgent
\* execSync either returns stdout (exit code 0), or throws an error that
\* carries the stdout captured so far: after a non-zero exit ("exit") or after
\* the timeout killed the child ("timeout").
ExecOutcomes == {"ok", "exit", "timeout"}

callCliAgent(exec, stdout) ==
    IF exec = "ok" THEN Returned(stdout)
    ELSE IF stdout # <<>> THEN Returned(stdout)
    ELSE Thrown("execSync failed")

\* main(): callCliAgent, then extractJson on what it returned; any throw ends
\* in the catch with process.exit(1).
toolMain(exec, stdout) ==
    LET output == callCliAgent(exec, stdout)
    IN  IF output.kind = "error" THEN output
        ELSE extractJson(output.val, NoMatchMessage("tool"))

\* ------------------------------------------------------------ the dispatch
\* A field the caller left out (undefined).
Absent == "<absent>"
\* config.timeout left out.
UndefinedTimeout == -1

CliProviders == {"gemini", "claude", "codex", "qwen"}
KeyProviders == {"gemini-api", "openai-api", "anthropic-api"}
\* An identifier outside the eight of AIProvider.
OtherProvider == "mock"
Providers == CliProviders \cup KeyProviders \cup {"ollama", OtherProvider}

ApiKeys == {Absent, "", "sk-key"}
BaseUrls == {Absent, "", "http://gpu-box:11434"}
Models == {Absent, "", "mistral"}
Timeouts == {UndefinedTimeout, 0, 90}
Words == {"coffee", "Coffee", "tea", "orange", "constructor"}

Config(p, w, k, u, m, t) ==
    [provider |-> p, word |-> w, apiKey |-> k, baseUrl |-> u, model |-> m,
     timeout |-> t]

NoConfig == Config("none", "", Absent, Absent, Absent, UndefinedTimeout)

\* The requests a dispatch is tried on: each provider with every value of the
\* fields its branch of the switch reads.
Configs ==
    {Config(p, "coffee", k, Absent, Absent, UndefinedTimeout) :
        p \in KeyProviders, k \in ApiKeys}
    \cup {Config("ollama", "coffee", Absent, u, m, UndefinedTimeout) :
        u \in BaseUrls, m \in Models}
    \cup {Config(p, "coffee", Absent, Absent, Absent, t) :
        p \in CliProviders, t \in Timeouts}
    \cup {Config(OtherProvider, w, Absent, Absent, Absent, UndefinedTimeout) :
        w \in Words}

\* !apiKey
MissingKey_OnlyUndefined(apiKey) == apiKey = Absent
MissingKey(apiKey) == apiKey \in {Absent, ""}

\* The cases of the switch that begin with `if (!apiKey) throw`.
RequiresKey_NotAnthropic(provider) == provider \in {"gemini-api", "openai-api"}
RequiresKey(provider) == provider \in KeyProviders

KeyRequiredMessage(provider) ==
    CASE provider = "gemini-api"    -> "API key required for Gemini API"
      [] provider = "openai-api"    -> "API key required for OpenAI API"
      [] provider = "anthropic-api" -> "API key required for Anthropic API"

MissingCredentialMessages == {KeyRequiredMessage(p) : p \in KeyProviders}

\* The adapter each case of the switch returns.
AdapterFor_OllamaToDefault(provider) ==
    CASE provider = "gemini-api"    -> "fetchWordJourneyGeminiAPI"
      [] provider = "openai-api"    -> "fetchWordJourneyOpenAI"
      [] provider = "anthropic-api" -> "fetchWordJourneyAnthropic"
      [] provider \in CliProviders  -> "fetchWordJourneyCLI"
      [] OTHER                      -> "fetchWordJourneyMock"
AdapterFor(provider) ==
    CASE provider = "gemini-api"    -> "fetchWordJourneyGeminiAPI"
      [] provider = "openai-api"    -> "fetchWordJourneyOpenAI"
      [] provider = "anthropic-api" -> "fetchWordJourneyAnthropic"
      [] provider = "ollama"        -> "fetchWordJourneyOllama"
      [] provider \in CliProviders  -> "fetchWordJourneyCLI"
      [] OTHER                      -> "fetchWordJourneyMock"

\* The adapters fetchWordJourney enters for a request: none when the
\* credential check throws, else the one of the provider's case.
AdaptersEntered_FallThrough(cfg) ==
    IF RequiresKey(cfg.provider) /\ MissingKey(cfg.apiKey) THEN <<>>
    ELSE IF cfg.provider \in Providers \ {OtherProvider}
         THEN <<AdapterFor(cfg.provider), "fetchWordJourneyMock">>
         ELSE <<"fetchWordJourneyMock">>
AdaptersEntered(cfg) ==
    IF RequiresKey(cfg.provider) /\ MissingKey(cfg.apiKey) THEN <<>>
    ELSE <<AdapterFor(cfg.provider)>>

\* baseUrl || 'http://localhost:11434', model || 'llama3', timeout || 60
OrDefault_KeepEmpty(v, d) == IF v = Absent THEN d ELSE v
OrDefault(v, d) == IF v \in {Absent, ""} THEN d ELSE v
DefaultTimeout == 60
TimeoutOrDefault(t) == IF t \in {UndefinedTimeout, 0} THEN DefaultTimeout ELSE t

RelayUrl == "/api/cli-agent"

Call(to, key, model, timeout) ==
    [to |-> to, apiKey |-> key, model |-> model, timeout |-> timeout]

\* The outbound call the adapter of a request issues (for Gemini: the
\* generateContent of the SDK).
OutboundCall(cfg) ==
    CASE cfg.provider = "gemini-api" ->
            Call("generateContent", cfg.apiKey, "gemini-2.0-flash", UndefinedTimeout)
      [] cfg.provider = "openai-api" ->
            Call("https://api.openai.com/v1/chat/completions", cfg.apiKey,
                 "gpt-4o-mini", UndefinedTimeout)
      [] cfg.provider = "anthropic-api" ->
            Call("https://api.anthropic.com/v1/messages", cfg.apiKey,
                 "claude-sonnet-4-20250514", UndefinedTimeout)
      [] cfg.provider = "ollama" ->
            Call(OrDefault(cfg.baseUrl, "http://localhost:11434") \o "/api/generate",
                 Absent, OrDefault(cfg.model, "llama3"), UndefinedTimeout)
      [] cfg.provider \in CliProviders ->
            Call(RelayUrl, Absent, cfg.provider, TimeoutOrDefault(cfg.timeout))

\* word.toLowerCase() on the words of the model.
toLowerCase(w) == IF w = "Coffee" THEN "coffee" ELSE w
mockDataKeys == {"coffee", "tea"}

\* A JourneyStep and the entries of mockData (the members the checks read).
JourneyStep(order, location, countryCode, century, routeType) ==
    [order |-> order, location |-> location, countryCode |-> countryCode,
     century |-> century, routeType |-> routeType]

mockData ==
    [k \in mockDataKeys |->
        IF k = "coffee"
        THEN [word |-> "coffee",
              origin |-> [location |-> "Mokha, Yemen", countryCode |-> "YE",
                          century |-> "15th Century"],
              journey |-> << JourneyStep(1, "Istanbul, Turkey", "TR", "16th Century", "land"),
                             JourneyStep(2, "Venice, Italy", "IT", "17th Century", "sea"),
                             JourneyStep(3, "Paris, France", "FR", "17th Century", "land"),
                             JourneyStep(4, "London, England", "GB", "17th Century", "sea") >>]
        ELSE [word |-> "tea",
              origin |-> [location |-> "Fujian Province, China", countryCode |-> "CN",
                          century |-> "3rd Century BCE"],
              journey |-> << JourneyStep(1, "Xiamen, China", "CN", "16th Century", "land"),
                             JourneyStep(2, "Amsterdam, Netherlands", "NL", "17th Century", "sea"),
                             JourneyStep(3, "London, England", "GB", "17th Century", "sea") >>]]

\* mockData is an object literal: a lookup of a name it does not own goes on
\* to Object.prototype, whose members (constructor, __proto__) are truthy.
ObjectPrototypeKeys == {"constructor", "__proto__"}

\* mockData[normalizedWord]: <<>> for undefined, else a reference to the value.
mockLookup(key) ==
    IF key \in mockDataKeys THEN <<"mockData", key>>
    ELSE IF key \in ObjectPrototypeKeys THEN <<"Object.prototype", key>>
    ELSE <<>>

fetchWordJourneyMock(word) ==
    IF mockLookup(toLowerCase(word)) # <<>>
    THEN Returned(mockLookup(toLowerCase(word)))
    ELSE Thrown("Mock data not available for \"" \o word
                \o "\". Use a real AI provider or try: coffee, tea")

\* ------------------------------------------------------ backend responses
\* The texts a backend (or a subprocess) answers with.
SampleTexts ==
    { <<"{", "}">>, <<"p", "{", "k", "n", "}">>, <<"p">>, <<"n">>,
      <<"{", "j", "[", "o1", "o2", "]", "}">>,
      <<"p", "{", "j", "[", "o2", "o1", "]", "}">> }

Reply(kind, text, statusText, message, jsonBody) ==
    [kind |-> kind, text |-> text, statusText |-> statusText,
     message |-> message, jsonBody |-> jsonBody]

NoReply == Reply("none", <<>>, "", Absent, FALSE)

\* What an HTTP backend may do with a call: answer 2xx with a text, answer a
\* non-2xx status (its error body JSON or not, with or without a message), or
\* not be reachable at all (fetch rejects).
HttpReplies ==
    {Reply("ok", t, "OK", Absent, TRUE) : t \in SampleTexts}
    \cup {Reply("status", <<>>, "Too Many Requests", m, TRUE) :
            m \in {Absent, "Rate limit reached"}}
    \cup {Reply("status", <<>>, "Bad Gateway", Absent, FALSE)}
    \cup {Reply("reject", <<>>, "", Absent, FALSE)}

\* error.error?.message || fallback
MessageOr(message, fallback) == IF message = Absent THEN fallback ELSE message

\* The rest of an adapter once its outbound call has an answer.
AdapterContinue(provider, r) ==
    IF r.kind = "reject" THEN Thrown("Failed to fetch")
    ELSE IF r.kind = "ok" THEN
        AdapterParse(IF provider \in CliProviders THEN "cli" ELSE provider, r.text)
    ELSE CASE provider = "gemini-api" ->
                Thrown("[GoogleGenerativeAI Error]: "
                       \o MessageOr(r.message, r.statusText))
           [] provider = "openai-api" ->
                IF r.jsonBody THEN Thrown(MessageOr(r.message, "OpenAI API error"))
                ELSE Thrown("SyntaxError")
           [] provider = "anthropic-api" ->
                IF r.jsonBody THEN Thrown(MessageOr(r.message, "Anthropic API error"))
                ELSE Thrown("SyntaxError")
           [] provider = "ollama" -> Thrown("Ollama error: " \o r.statusText)
           [] provider \in CliProviders ->
                Thrown("CLI agent error: " \o r.statusText)

\* ------------------------------------------------------------- the relay
\* The body of a POST /api/cli-agent request: not JSON at all, or an object
\* with model and (possibly no) timeout.
Body(wf, model, timeout) == [wellFormed |-> wf, model |-> model, timeout |-> timeout]
NoBody == Body(FALSE, Absent, UndefinedTimeout)

\* Bodies sent by a client other than the adapter.
ExternalBodies ==
    {NoBody, Body(TRUE, "claude", UndefinedTimeout), Body(TRUE, "claude", 5),
     Body(TRUE, "claude", 2147454)}

Response(status, statusText, error, output) ==
    [status |-> status, statusText |-> statusText, error |-> error, output |-> output]

\* The request as the handler holds it, and stdout: the bytes its
\* subprocess has written to standard output so far.  proc: "none" (no request), "sent"
\* (on its way to the relay), "unreachable" (the relay was not listening),
\* "rejected" (the catch answered), "running", "errored" ('error' emitted),
\* "killed" (the spawn timeout fired), "closed" ('close' emitted).
NoRequest ==
    [proc |-> "none", body |-> NoBody, timeout |-> UndefinedTimeout,
     killAfterMs |-> 0, dataEvents |-> 0, code |-> "none",
     stdout |-> <<>>, output |-> <<>>, errorOutput |-> <<>>,
     responses |-> <<>>, writeCalls |-> 0, threw |-> FALSE]

SentRequest(body) == [NoRequest EXCEPT !.proc = "sent", !.body = body]

\* In what a subprocess writes, "C3" and "A9" are the two bytes of the UTF-8
\* encoding of one character, U+00E9; every other token is a one-byte
\* character.  A 'data' event carries whatever bytes the pipe delivered.
StdoutChunks == {<<"{", "}">>, <<"p">>, <<"C3">>, <<"A9">>}
StderrChunks == {<<"e">>}
\* Exit codes of a subprocess that ran; -2 is the code of the 'close' that
\* follows a failed spawn (ENOENT), null the code after a kill by signal.
ExitCodes == {"0", "1"}
SpawnFailedCode == "-2"
KilledCode == "null"

\* data.toString(): the UTF-8 decoding of one Buffer by itself.  A byte
\* sequence that is not a complete character decodes to U+FFFD.
RECURSIVE toString(_)
toString(data) ==
    IF data = <<>> THEN <<>>
    ELSE IF Len(data) >= 2 /\ data[1] = "C3" /\ data[2] = "A9"
         THEN <<"U+00E9">> \o toString(SubSeq(data, 3, Len(data)))
    ELSE IF data[1] \in {"C3", "A9"}
         THEN <<"U+FFFD">> \o toString(Tail(data))
    ELSE <<data[1]>> \o toString(Tail(data))

\* res.writeHead(...); res.end(...).  Once a response has been ended,
\* writeHead throws ERR_HTTP_HEADERS_SENT; thrown from an event listener it is
\* an uncaught exception of the relay process.
resWrite(r, resp) ==
    IF r.responses = <<>>
    THEN [r EXCEPT !.responses = <<resp>>, !.writeCalls = @ + 1]
    ELSE [r EXCEPT !.writeCalls = @ + 1, !.threw = TRUE]

\* spawn(..., {timeout: (timeout + 30) * 1000}): after how many milliseconds
\* the subprocess is killed.  The kill is armed with setTimeout, whose delay is
\* 1 when its argument is not within 1 .. 2^31 - 1; the test is made on the
\* seconds, so that the product is formed only when it is in that range.
killTimerMs(timeout) ==
    IF timeout + 30 >= 1 /\ timeout + 30 <= 2147483647 \div 1000
    THEN (timeout + 30) * 1000
    ELSE 1

\* execSync(cmd, {timeout: (timeout + 10) * 1000}) of the tool: the timer is
\* the one of the synchronous spawn, which takes the milliseconds as they are.
toolKillMs(timeout) == (timeout + 10) * 1000

\* const { model, prompt, timeout = 60 } = JSON.parse(body); spawn(..., {timeout: (timeout + 30) * 1000})
relayOnEnd(r) ==
    IF ~r.body.wellFormed
    THEN resWrite([r EXCEPT !.proc = "rejected"],
                  Response(500, "Internal Server Error", "SyntaxError", <<>>))
    ELSE LET t == IF r.body.timeout = UndefinedTimeout THEN DefaultTimeout
                  ELSE r.body.timeout
         IN  [r EXCEPT !.proc = "running", !.timeout = t,
                       !.killAfterMs = killTimerMs(t)]

\* pythonProcess.on('close', (code) => ...)
relayOnClose(r, code) ==
    resWrite([r EXCEPT !.proc = "closed", !.code = code],
             IF code = "0" \/ Len(r.output) > 0
             THEN Response(200, "OK", Absent,
                           IF r.output # <<>> THEN r.output ELSE r.errorOutput)
             ELSE Response(500, "Internal Server Error",
                           "Process exited with code " \o code, r.errorOutput))

\* pythonProcess.on('error', (err) => ...)
relayOnError(r, message) ==
    resWrite([r EXCEPT !.proc = "errored"],
             Response(500, "Internal Server Error", message, <<>>))

\* The relay's response as the adapter's fetch sees it.
ReplyOf(resp) ==
    IF resp.status = 200 THEN Reply("ok", resp.output, resp.statusText, Absent, TRUE)
    ELSE Reply("status", resp.output, resp.statusText, resp.error, TRUE)

\* ------------------------------------------------- the relay's GET routes
\* CLI_AGENTS of the relay, in source order.
CLI_AGENTS == <<"gemini", "claude", "codex", "qwen">>

\* execSync(`which ${name}`) returns (the tool is found) or throws.
WhichOutcomes == {"found", "missing"}

\* checkCliInstalled: true from the try, false from the catch.
checkCliInstalled_AlwaysTrue(found, name) == TRUE
checkCliInstalled(found, name) == found[name] = "found"

\* A response of a GET route.  agents: the availability list; error, message
\* and models: the members of the model-list answer (Absent: not a member).
RouteResponse(status, agents, error, message, models) ==
    [status |-> status, agents |-> agents, error |-> error,
     message |-> message, models |-> models]

\* What a request other than a cli-agent call is at: kind "none", "options",
\* "check", "tags" or "notFound"; pc "idle", "fetching" (awaiting the fetch of
\* the model list) or "answered"; method and url as received.
NoRoute ==
    [kind |-> "none", pc |-> "idle", method |-> Absent, url |-> <<>>,
     baseUrlParam |-> Absent, fetched |-> Absent,
     upstream |-> [kind |-> "none", models |-> <<>>], responses |-> <<>>]

\* GET /api/cli-agents/check
cliAgentsCheck(found) ==
    RouteResponse(200,
        [i \in 1..Len(CLI_AGENTS) |->
            [name |-> CLI_AGENTS[i],
             installed |-> checkCliInstalled(found, CLI_AGENTS[i])]],
        Absent, Absent, <<>>)

\* urlParams.searchParams.get('baseUrl') || 'http://localhost:11434', then
\* `${baseUrl}/api/tags`
tagsUrl(param) ==
    (IF param \in {Absent, ""} THEN "http://localhost:11434" ELSE param)
        \o "/api/tags"

\* What the fetch of the model list ends in: it rejects (nothing listens, or
\* the fetch times out), the endpoint answers a non-2xx status, a 2xx with a
\* JSON body holding a model list, or a 2xx whose body is not JSON.
Upstream(kind, models) == [kind |-> kind, models |-> models]

TagsUpstreams ==
    { Upstream("reject", <<>>), Upstream("status", <<>>), Upstream("notJson", <<>>),
      Upstream("json", <<>>), Upstream("json", <<"llama3", "mistral">>) }

\* The try / catch of the model-list route.
ollamaTags_ForwardAnyBody(up) == RouteResponse(200, <<>>, Absent, Absent, up.models)
ollamaTags(up) ==
    IF up.kind = "json"
    THEN RouteResponse(200, <<>>, Absent, Absent, up.models)
    ELSE RouteResponse(503, <<>>, "Ollama not available",
                       CASE up.kind = "reject"  -> "fetch failed"
                         [] up.kind = "status"  -> "Ollama returned 500"
                         [] up.kind = "notJson" -> "SyntaxError",
                       <<>>)

\* ------------------------------------------- concurrent cli-agent requests
\* What the subprocess of request i writes to its stdout and to its stderr.
StdoutOf(i) == <<"out" \o ToString(i)>>
StderrOf(i) == <<"err" \o ToString(i)>>

ConcurrentBodies == {NoBody, Body(TRUE, "claude", UndefinedTimeout)}

\* ------------------------------------------------------------ the search UI
\* The provider registry of SearchInput, in source order.
Provider(id, needsKey, needsConfig, category) ==
    [id |-> id, needsKey |-> needsKey, needsConfig |-> needsConfig,
     category |-> category]

PROVIDERS ==
    << Provider("gemini", FALSE, FALSE, "cli"),
       Provider("claude", FALSE, FALSE, "cli"),
       Provider("codex", FALSE, FALSE, "cli"),
       Provider("qwen", FALSE, FALSE, "cli"),
       Provider("gemini-api", TRUE, FALSE, "api"),
       Provider("openai-api", TRUE, FALSE, "api"),
       Provider("anthropic-api", TRUE, FALSE, "api"),
       Provider("ollama", FALSE, TRUE, "local") >>

\* PROVIDERS.find(p => p.id === id)!
ProviderInfo(id) ==
    PROVIDERS[CHOOSE i \in 1..Len(PROVIDERS) : PROVIDERS[i].id = id]

SUGGESTIONS == <<"tea", "coffee", "orange", "algorithm", "chocolate", "safari">>

DefaultApiKeys == [p \in KeyProviders |-> ""]
DefaultOllamaConfig == [baseUrl |-> "http://localhost:11434", model |-> "llama3"]

\* The item under STORAGE_KEY in localStorage (present = FALSE: no item), as
\* JSON.parse reads it: parses = FALSE when JSON.parse throws on its text,
\* isNull when the text is `null`, and has = the members of the parsed object
\* that are there and truthy (a member outside has holds a filler value).
StoredMembers == {"apiKeys", "ollamaConfig", "provider"}

Stored(present, keys, oc, p) ==
    [present |-> present, parses |-> TRUE, isNull |-> FALSE, has |-> StoredMembers,
     apiKeys |-> keys, ollamaConfig |-> oc, provider |-> p]

NoStored == Stored(FALSE, DefaultApiKeys, DefaultOllamaConfig, "gemini")

\* What localStorage may hold when the component mounts.
StoredSamples ==
    { NoStored,
      Stored(TRUE, DefaultApiKeys, DefaultOllamaConfig, "claude"),
      Stored(TRUE, [DefaultApiKeys EXCEPT !["openai-api"] = "sk-key"],
             DefaultOllamaConfig, "openai-api"),
      Stored(TRUE, DefaultApiKeys, DefaultOllamaConfig, "anthropic-api"),
      Stored(TRUE, DefaultApiKeys,
             [baseUrl |-> "http://gpu-box:11434", model |-> "mistral"], "ollama") }

\* The texts typed into the search field, and value.trim().
Values == {"", " ", "tea "}
trim(v) == IF v = " " THEN "" ELSE IF v = "tea " THEN "tea" ELSE v

\* Items written by something other than saveConfig: a text that is not
\* JSON, the text `null`, the text `{}`, an object with a provider only.
ForeignStored ==
    { [NoStored EXCEPT !.present = TRUE, !.parses = FALSE, !.has = {}],
      [NoStored EXCEPT !.present = TRUE, !.isNull = TRUE, !.has = {}],
      [NoStored EXCEPT !.present = TRUE, !.has = {}],
      [NoStored EXCEPT !.present = TRUE, !.has = {"provider"}, !.provider = "claude"] }

\* JSON.stringify({apiKeys, ollamaConfig, provider}) as the text of the item,
\* member by member, and JSON.parse of such a text.
JSONstringify(keys, oc, p) ==
    << <<"apiKeys", <<keys["gemini-api"], keys["openai-api"], keys["anthropic-api"]>> >>,
       <<"ollamaConfig", <<oc.baseUrl, oc.model>> >>,
       <<"provider", <<p>> >> >>

JSONparseConfig(text) ==
    Stored(TRUE,
           [k \in KeyProviders |->
               CASE k = "gemini-api" -> text[1][2][1]
                 [] k = "openai-api" -> text[1][2][2]
                 [] k = "anthropic-api" -> text[1][2][3]],
           [baseUrl |-> text[2][2][1], model |-> text[2][2][2]],
           text[3][2][1])

\* localStorage.setItem(STORAGE_KEY, JSON.stringify({...})): what a later
\* getItem and JSON.parse give back.
saveConfig(keys, oc, p) == JSONparseConfig(JSONstringify(keys, oc, p))

\* The load-saved-config effect: the three settings after it ran on an item.
\* A throw of JSON.parse, or of the member access on null, ends in the empty
\* catch.
LoadedSettings_ProviderNotRestored(item) ==
    [apiKeys |-> IF item.present /\ item.parses /\ ~item.isNull /\ "apiKeys" \in item.has
                 THEN item.apiKeys ELSE DefaultApiKeys,
     ollamaConfig |-> IF item.present /\ item.parses /\ ~item.isNull
                         /\ "ollamaConfig" \in item.has
                      THEN item.ollamaConfig ELSE DefaultOllamaConfig,
     provider |-> "gemini"]
LoadedSettings(item) ==
    LET usable == item.present /\ item.parses /\ ~item.isNull
    IN  [apiKeys |-> IF usable /\ "apiKeys" \in item.has
                     THEN item.apiKeys ELSE DefaultApiKeys,
         ollamaConfig |-> IF usable /\ "ollamaConfig" \in item.has
                          THEN item.ollamaConfig ELSE DefaultOllamaConfig,
         provider |-> IF usable /\ "provider" \in item.has
                      THEN item.provider ELSE "gemini"]

\* error === null
Null == "<null>"

Journey(loaded, word, length) == [loaded |-> loaded, word |-> word, length |-> length]
\* journeyData === null
NoJourney == Journey(FALSE, "", 0)

\* The Results a successful fetchWordJourney may resolve to for a word.
JourneysFor(word) == {Journey(TRUE, word, n) : n \in {0, 1, 3}}

\* The messages a failed fetchWordJourney may reject with.
FetchErrors == {"Failed to fetch", "No valid JSON in response"}

\* The catch of App.handleSearch:
\* err instanceof Error ? err.message : 'RESEARCH_FAILED_RETRY_QUERY'
CatchMessage_Generic(err) == "RESEARCH_FAILED_RETRY_QUERY"
CatchMessage(err) ==
    IF err.kind = "error" THEN err.err ELSE "RESEARCH_FAILED_RETRY_QUERY"

\* if (value.trim() && !isLoading)
SubmitAllowed(v, loading) == trim(v) # "" /\ ~loading

\* if (!isLoading)
SuggestionAllowed_NoGuard(loading) == TRUE
SuggestionAllowed(loading) == ~loading

UiLog(handler, called) == [handler |-> handler, called |-> called]

\* A call of the onSearch prop: onSearch(word, config).
SearchCall(word, cfg) == [called |-> TRUE, word |-> word, config |-> cfg]
NoSearch == [called |-> FALSE, word |-> "", config |-> NoConfig]

\* The report the relay's availability route answers with for a set of
\* installed tools.
AgentsReport(installed) ==
    [i \in 1..Len(CLI_AGENTS) |->
        [name |-> CLI_AGENTS[i], installed |-> CLI_AGENTS[i] \in installed]]

\* cliAgents after the check-on-mount effect: [] (no answer, or the catch),
\* or the report of a relay whose host has some of the tools.
CliAgentReports == {<<>>, AgentsReport({"gemini", "claude"})}

\* cliAgents.find(a => a.name === p.id)?.installed ?? false
isInstalled(agents, id) ==
    \E i \in 1..Len(agents) : agents[i].name = id /\ agents[i].installed

\* needsSetup of SearchInput.
needsSetup(p, keys, oc) ==
    \/ ProviderInfo(p).needsKey /\ keys[p] = ""
    \/ p = "ollama" /\ oc.baseUrl = ""

\* What the user types into the settings panel.
EditedKeys == {"openai-api", "anthropic-api"}
TypedKeys == {"", "sk-key"}
TypedBaseUrls == {"", "http://localhost:11434"}
\* What the search field holds in the form specification.
TypedValues == {"", "tea "}

\* ------------------------------------------------------------------- state
VARIABLES
    raw,        \* the raw response text under extraction
    exBy,       \* which extractor was applied to raw ("none" before)
    exOut,      \* what it returned or threw
    toolExec,   \* how the tool's execSync ended ("none" before)
    toolRet,    \* what callCliAgent returned or threw
    dPc,        \* where the dispatch is: "idle", "importing", "awaiting",
                \* "mockTimer", "done"; "external" when the relay is called
                \* by a client other than the adapter
    config,     \* the AIProviderConfig (and the word) of the dispatch
    adapterCalls, \* the adapters entered, in order
    outbound,   \* the outbound calls issued (fetch / generateContent), in order
    reply,      \* what the backend answered to the outbound call
    outcome,    \* how the promise of fetchWordJourney settled
    rq,         \* the relay's POST /api/cli-agent request and its subprocess
    value,      \* SearchInput: the text of the search field
    provider,   \* SearchInput: the selected provider
    apiKeys,    \* SearchInput: the API keys entered, by provider
    ollamaConfig, \* SearchInput: the Ollama endpoint and model
    stored,     \* the localStorage item under STORAGE_KEY
    isLoading, error, journeyData, activeWaypointIndex, isPlaying, showPanel,
                \* the state of App
    inFlight,   \* the calls of fetchWordJourney not yet settled
    uiLog,      \* the last form handler run, and whether it called onSearch
    settled,    \* App: how the fetchWordJourney it last awaited settled
    showProviders, showSettings,
                \* SearchInput: the provider dropdown / settings panel is open
    cliAgents,  \* SearchInput: the availability report received from the relay
    onSearch,   \* the call of the onSearch prop made by the current step
    ollamaModels, ollamaLoading, ollamaError,
                \* SearchInput: the model list, its loading flag and error
    tagFetches, \* the calls of fetchOllamaModels not yet settled, each with
                \* the baseUrl and model its closure holds
    effectDue,  \* SearchInput: a dependency of the model-list effect changed
                \* in the last render and the effect has not run yet
    tools,      \* the relay's host: what `which` finds for each CLI tool
    route,      \* the relay's GET request (availability or model list)
    reqs,       \* the relay's concurrent POST /api/cli-agent requests
    relayUp     \* the relay process is running

textVars == <<raw, exBy, exOut, toolExec, toolRet>>
dispatchVars == <<dPc, config, adapterCalls, outbound, reply, outcome>>

formVars == <<showProviders, showSettings, cliAgents, onSearch>>

ollamaVars == <<ollamaModels, ollamaLoading, ollamaError, tagFetches, effectDue>>

uiVars == <<value, provider, apiKeys, ollamaConfig, stored, isLoading, error,
            journeyData, activeWaypointIndex, isPlaying, showPanel, inFlight,
            uiLog, settled, formVars, ollamaVars>>

serverVars == <<tools, route, reqs, relayUp>>

vars == <<textVars, dispatchVars, rq, uiVars, serverVars>>

Pending == [kind |-> "pending", val |-> NoVal, err |-> "none"]

\* The model list of the settings panel as mounted, with no fetch made.
IdleOllama ==
    /\ ollamaModels = <<>>
    /\ ollamaLoading = FALSE
    /\ ollamaError = Null
    /\ tagFetches = <<>>
    /\ effectDue = FALSE

\* The UI left out of a specification: as mounted, with nothing stored.
IdleUI ==
    /\ value = ""
    /\ provider = "gemini"
    /\ apiKeys = DefaultApiKeys
    /\ ollamaConfig = DefaultOllamaConfig
    /\ stored = NoStored
    /\ isLoading = FALSE
    /\ error = Null
    /\ journeyData = NoJourney
    /\ activeWaypointIndex = -1
    /\ isPlaying = FALSE
    /\ showPanel = FALSE
    /\ inFlight = <<>>
    /\ uiLog = UiLog("none", FALSE)
    /\ settled = Pending
    /\ showProviders = FALSE
    /\ showSettings = FALSE
    /\ cliAgents = <<>>
    /\ onSearch = NoSearch
    /\ IdleOllama

\* The relay left out of a specification: running, with no request.
IdleServer ==
    /\ tools = [name \in CliProviders |-> "missing"]
    /\ route = NoRoute
    /\ reqs = [i \in 1..MaxRequests |-> NoRequest]
    /\ relayUp = TRUE

\* ------------------------------------------------------ SpecText: extraction
InitText ==
    /\ raw \in Texts
    /\ exBy = "none"
    /\ exOut = Pending
    /\ toolExec = "none"
    /\ toolRet = Pending
    /\ dPc = "idle"
    /\ config = NoConfig
    /\ adapterCalls = <<>>
    /\ outbound = <<>>
    /\ reply = NoReply
    /\ outcome = Pending
    /\ rq = NoRequest
    /\ IdleUI
    /\ IdleServer

\* One adapter (or the tool's extractJson) is applied to the raw text.
Extract(who) ==
    /\ exBy = "none"
    /\ exBy' = who
    /\ exOut' = AdapterParse(who, raw)
    /\ UNCHANGED <<raw, toolExec, toolRet, dispatchVars, rq, uiVars, serverVars>>

\* The tool runs: execSync ends in one of its outcomes with raw on stdout.
ToolRun(exec) ==
    /\ exBy = "none"
    /\ exBy' = "tool"
    /\ toolExec' = exec
    /\ toolRet' = callCliAgent(exec, raw)
    /\ exOut' = toolMain(exec, raw)
    /\ UNCHANGED <<raw, dispatchVars, rq, uiVars, serverVars>>

NextText ==
    \/ \E who \in Extractors : Extract(who)
    \/ \E exec \in ExecOutcomes : ToolRun(exec)

SpecText == InitText /\ [][NextText]_vars

\* ------------------------------------------------------- Spec: one dispatch
IdleDispatch ==
    /\ dPc = "idle"
    /\ config = NoConfig
    /\ adapterCalls = <<>>
    /\ outbound = <<>>
    /\ reply = NoReply
    /\ outcome = Pending
    /\ rq = NoRequest

IdleText ==
    /\ raw = <<>>
    /\ exBy = "none"
    /\ exOut = Pending
    /\ toolExec = "none"
    /\ toolRet = Pending

Init == IdleText /\ IdleDispatch /\ IdleUI /\ IdleServer

\* fetchWordJourney(word, config), up to the first await of the adapter.
fetchWordJourney(cfg) ==
    /\ dPc = "idle"
    /\ config' = cfg
    /\ adapterCalls' = AdaptersEntered(cfg)
    /\ reply' = reply
    /\ IF AdaptersEntered(cfg) = <<>>
       THEN /\ outcome' = Thrown(KeyRequiredMessage(cfg.provider))
            /\ dPc' = "done"
            /\ UNCHANGED <<outbound, rq>>
       ELSE IF cfg.provider = "gemini-api"
       THEN /\ dPc' = "importing"
            /\ UNCHANGED <<outbound, outcome, rq>>
       ELSE IF cfg.provider \in CliProviders
       THEN /\ outbound' = <<OutboundCall(cfg)>>
            /\ rq' = SentRequest(Body(TRUE, OutboundCall(cfg).model,
                                      OutboundCall(cfg).timeout))
            /\ dPc' = "awaiting"
            /\ UNCHANGED outcome
       ELSE IF cfg.provider \in {"openai-api", "anthropic-api", "ollama"}
       THEN /\ outbound' = <<OutboundCall(cfg)>>
            /\ dPc' = "awaiting"
            /\ UNCHANGED <<outcome, rq>>
       ELSE /\ dPc' = "mockTimer"
            /\ UNCHANGED <<outbound, outcome, rq>>
    /\ UNCHANGED <<textVars, uiVars, serverVars>>

\* await import('@google/generative-ai'), then model.generateContent(...).
GeminiImport(loaded) ==
    /\ dPc = "importing"
    /\ IF loaded
       THEN /\ outbound' = <<OutboundCall(config)>>
            /\ dPc' = "awaiting"
            /\ UNCHANGED outcome
       ELSE /\ outcome' = Thrown("Failed to fetch dynamically imported module")
            /\ dPc' = "done"
            /\ UNCHANGED outbound
    /\ UNCHANGED <<uiVars, serverVars, textVars, config, adapterCalls, reply, rq>>

\* A hosted API or Ollama answers (or the fetch rejects) and the adapter runs
\* to its end.
BackendRespond(r) ==
    /\ dPc = "awaiting"
    /\ outbound[1].to # RelayUrl
    /\ reply' = r
    /\ outcome' = AdapterContinue(config.provider, r)
    /\ dPc' = "done"
    /\ UNCHANGED <<uiVars, serverVars, textVars, config, adapterCalls, outbound, rq>>

\* The 1500 ms timer of fetchWordJourneyMock fires.
MockTimer ==
    /\ dPc = "mockTimer"
    /\ outcome' = fetchWordJourneyMock(config.word)
    /\ dPc' = "done"
    /\ UNCHANGED <<uiVars, serverVars, textVars, config, adapterCalls, outbound, reply, rq>>

\* A client other than the adapter posts to /api/cli-agent.
ExternalPost(body) ==
    /\ dPc = "idle"
    /\ dPc' = "external"
    /\ rq' = SentRequest(body)
    /\ UNCHANGED <<uiVars, serverVars, textVars, config, adapterCalls, outbound, reply, outcome>>

\* The relay is not listening: the adapter's fetch rejects.
RelayUnreachable ==
    /\ dPc = "awaiting"
    /\ rq.proc = "sent"
    /\ rq' = [rq EXCEPT !.proc = "unreachable"]
    /\ reply' = Reply("reject", <<>>, "", Absent, FALSE)
    /\ outcome' = AdapterContinue(config.provider, reply')
    /\ dPc' = "done"
    /\ UNCHANGED <<uiVars, serverVars, textVars, config, adapterCalls, outbound>>

\* req.on('end'): the body is parsed and the subprocess spawned.
RelayReceive ==
    /\ rq.proc = "sent"
    /\ rq' = relayOnEnd(rq)
    /\ UNCHANGED <<uiVars, serverVars, textVars, dispatchVars>>

ProcStdout(chunk) ==
    /\ rq.proc = "running"
    /\ rq.dataEvents < MaxChunks
    /\ rq' = [rq EXCEPT !.output = @ \o toString(chunk), !.stdout = @ \o chunk,
                         !.dataEvents = @ + 1]
    /\ UNCHANGED <<uiVars, serverVars, textVars, dispatchVars>>

ProcStderr(chunk) ==
    /\ rq.proc = "running"
    /\ rq.dataEvents < MaxChunks
    /\ rq' = [rq EXCEPT !.errorOutput = @ \o toString(chunk), !.dataEvents = @ + 1]
    /\ UNCHANGED <<uiVars, serverVars, textVars, dispatchVars>>

\* The subprocess exits by itself and its streams close.
ProcExit(code) ==
    /\ rq.proc = "running"
    /\ rq' = relayOnClose(rq, code)
    /\ UNCHANGED <<uiVars, serverVars, textVars, dispatchVars>>

\* The spawn failed (python3 not found): 'error' is emitted ...
SpawnError ==
    /\ rq.proc = "running"
    /\ rq.dataEvents = 0
    /\ rq' = relayOnError(rq, "spawn python3 ENOENT")
    /\ UNCHANGED <<uiVars, serverVars, textVars, dispatchVars>>

\* ... and 'close' after it, with the negative code of the failed spawn.
CloseAfterError ==
    /\ rq.proc = "errored"
    /\ rq' = relayOnClose(rq, SpawnFailedCode)
    /\ UNCHANGED <<uiVars, serverVars, textVars, dispatchVars>>

\* The spawn option `timeout` elapses: the subprocess is sent SIGTERM ...
SpawnTimeout ==
    /\ rq.proc = "running"
    /\ rq' = [rq EXCEPT !.proc = "killed"]
    /\ UNCHANGED <<uiVars, serverVars, textVars, dispatchVars>>

\* ... and 'close' is emitted with code null.
CloseAfterKill ==
    /\ rq.proc = "killed"
    /\ rq' = relayOnClose(rq, KilledCode)
    /\ UNCHANGED <<uiVars, serverVars, textVars, dispatchVars>>

\* The relay's response reaches the adapter, which runs to its end.
DeliverResponse ==
    /\ dPc = "awaiting"
    /\ outbound[1].to = RelayUrl
    /\ rq.responses # <<>>
    /\ reply' = ReplyOf(rq.responses[1])
    /\ outcome' = AdapterContinue(config.provider, reply')
    /\ dPc' = "done"
    /\ UNCHANGED <<uiVars, serverVars, textVars, config, adapterCalls, outbound, rq>>

Next ==
    \/ \E cfg \in Configs : fetchWordJourney(cfg)
    \/ \E loaded \in BOOLEAN : GeminiImport(loaded)
    \/ \E r \in HttpReplies : BackendRespond(r)
    \/ MockTimer
    \/ \E body \in ExternalBodies : ExternalPost(body)
    \/ RelayUnreachable
    \/ RelayReceive
    \/ \E chunk \in StdoutChunks : ProcStdout(chunk)
    \/ \E chunk \in StderrChunks : ProcStderr(chunk)
    \/ \E code \in ExitCodes : ProcExit(code)
    \/ SpawnError
    \/ CloseAfterError
    \/ SpawnTimeout
    \/ CloseAfterKill
    \/ DeliverResponse

Spec == Init /\ [][Next]_vars

\* ------------------------------------------------- SpecUI: the search form
\* The component has mounted: the saved config, if any, has been loaded.
InitUI ==
    /\ stored \in StoredSamples
    /\ value = ""
    /\ provider = LoadedSettings(stored).provider
    /\ apiKeys = LoadedSettings(stored).apiKeys
    /\ ollamaConfig = LoadedSettings(stored).ollamaConfig
    /\ isLoading = FALSE
    /\ error = Null
    /\ journeyData = NoJourney
    /\ activeWaypointIndex = -1
    /\ isPlaying = FALSE
    /\ showPanel = FALSE
    /\ inFlight = <<>>
    /\ uiLog = UiLog("none", FALSE)
    /\ settled = Pending
    /\ showProviders = FALSE
    /\ showSettings = FALSE
    /\ cliAgents = <<>>
    /\ onSearch = NoSearch
    /\ IdleOllama
    /\ IdleText
    /\ IdleDispatch
    /\ IdleServer

\* The config SearchInput.handleSearch builds from its state.
SearchConfig(word) ==
    Config(provider, word,
           IF ProviderInfo(provider).needsKey THEN apiKeys[provider] ELSE Absent,
           IF provider = "ollama" THEN ollamaConfig.baseUrl ELSE Absent,
           IF provider = "ollama" THEN ollamaConfig.model ELSE Absent,
           90)

\* App.handleSearch up to its await: the state is reset and fetchWordJourney
\* is called.
AppHandleSearch_NoReset(word, cfg) ==
    /\ isLoading' = TRUE
    /\ error' = Null
    /\ inFlight' = Append(inFlight, [word |-> word, config |-> cfg])
    /\ settled' = Pending
    /\ UNCHANGED <<journeyData, isPlaying, activeWaypointIndex, showPanel>>
AppHandleSearch(word, cfg) ==
    /\ isLoading' = TRUE
    /\ error' = Null
    /\ isPlaying' = FALSE
    /\ activeWaypointIndex' = -1
    /\ showPanel' = FALSE
    /\ inFlight' = Append(inFlight, [word |-> word, config |-> cfg])
    /\ settled' = Pending
    /\ UNCHANGED journeyData

\* SearchInput.handleSearch: build the config, saveConfig(), onSearch(...).
SearchHandleSearch(word) ==
    /\ stored' = saveConfig(apiKeys, ollamaConfig, provider)
    /\ AppHandleSearch(word, SearchConfig(word))

appVars == <<isLoading, error, journeyData, activeWaypointIndex, isPlaying,
             showPanel, inFlight, settled>>
settingsVars == <<provider, apiKeys, ollamaConfig>>

\* onChange of the search field.
TypeValue(v) ==
    /\ value' = v
    /\ UNCHANGED <<settingsVars, stored, appVars, uiLog, textVars, dispatchVars, rq,
                   serverVars, formVars, ollamaVars>>

\* The form is submitted.
handleSubmit ==
    /\ Len(inFlight) < MaxInFlight
    /\ IF SubmitAllowed(value, isLoading)
       THEN /\ SearchHandleSearch(trim(value))
            /\ uiLog' = UiLog("handleSubmit", TRUE)
       ELSE /\ uiLog' = UiLog("handleSubmit", FALSE)
            /\ UNCHANGED <<stored, appVars>>
    /\ UNCHANGED <<value, settingsVars, textVars, dispatchVars, rq,
                   serverVars, formVars, ollamaVars>>

\* A suggestion button is clicked.
handleSuggestion(suggestion) ==
    /\ Len(inFlight) < MaxInFlight
    /\ IF SuggestionAllowed(isLoading)
       THEN /\ SearchHandleSearch(suggestion)
            /\ uiLog' = UiLog("handleSuggestion", TRUE)
       ELSE /\ uiLog' = UiLog("handleSuggestion", FALSE)
            /\ UNCHANGED <<stored, appVars>>
    /\ UNCHANGED <<value, settingsVars, textVars, dispatchVars, rq,
                   serverVars, formVars, ollamaVars>>

RemoveAt(s, i) == SubSeq(s, 1, i - 1) \o SubSeq(s, i + 1, Len(s))

\* A pending fetchWordJourney resolves: the try block of App.handleSearch
\* goes on, then the finally.
FetchResolves(i) ==
    /\ i \in 1..Len(inFlight)
    /\ AdaptersEntered(inFlight[i].config) # <<>>
    /\ journeyData' \in JourneysFor(inFlight[i].word)
    /\ showPanel' = TRUE
    /\ isLoading' = FALSE
    /\ inFlight' = RemoveAt(inFlight, i)
    /\ settled' = Returned(<<inFlight[i].word>>)
    /\ UNCHANGED <<value, settingsVars, stored, error, activeWaypointIndex,
                   isPlaying, uiLog, textVars, dispatchVars, rq,
                   serverVars, formVars, ollamaVars>>

\* A pending fetchWordJourney rejects: the catch, then the finally.
FetchRejects_ClearsJourney(i, message) ==
    /\ i \in 1..Len(inFlight)
    /\ IF AdaptersEntered(inFlight[i].config) = <<>>
       THEN message = KeyRequiredMessage(inFlight[i].config.provider)
       ELSE message \in FetchErrors
    /\ error' = CatchMessage(Thrown(message))
    /\ isLoading' = FALSE
    /\ inFlight' = RemoveAt(inFlight, i)
    /\ settled' = Thrown(message)
    /\ journeyData' = NoJourney
    /\ UNCHANGED <<value, settingsVars, stored, activeWaypointIndex,
                   isPlaying, showPanel, uiLog, textVars, dispatchVars, rq,
                   serverVars, formVars, ollamaVars>>
FetchRejects(i, message) ==
    /\ i \in 1..Len(inFlight)
    /\ IF AdaptersEntered(inFlight[i].config) = <<>>
       THEN message = KeyRequiredMessage(inFlight[i].config.provider)
       ELSE message \in FetchErrors
    /\ error' = CatchMessage(Thrown(message))
    /\ isLoading' = FALSE
    /\ inFlight' = RemoveAt(inFlight, i)
    /\ settled' = Thrown(message)
    /\ UNCHANGED <<value, settingsVars, stored, journeyData, activeWaypointIndex,
                   isPlaying, showPanel, uiLog, textVars, dispatchVars, rq,
                   serverVars, formVars, ollamaVars>>

NextUI ==
    \/ \E v \in Values : TypeValue(v)
    \/ handleSubmit
    \/ \E k \in 1..MaxSuggestions : handleSuggestion(SUGGESTIONS[k])
    \/ \E i \in 1..MaxInFlight : FetchResolves(i)
    \/ \E i \in 1..MaxInFlight,
          m \in FetchErrors \cup MissingCredentialMessages : FetchRejects(i, m)

SpecUI == InitUI /\ [][NextUI]_vars

\* ------------------------------------------ SpecApp: the App and its playback
\* {journeyData && !isLoading && (<PlaybackControls/> <InfoPanel/> ...)}
ControlsShown == journeyData.loaded /\ ~isLoading

\* canGoNext={activeWaypointIndex < journeyData.journey.length - 1}
canGoNext_AlwaysEnabled(index, journey) == TRUE
canGoNext(index, journey) == index < journey.length - 1
\* canGoPrev={activeWaypointIndex > -1}
canGoPrev(index) == index > -1

\* The updater of handleNext, behind its guard:
\* if (!journeyData) return; prev => Math.min(prev + 1, journey.length - 1)
NextIndex_Stays(prev, journey) == prev
NextIndex(prev, journey) ==
    IF ~journey.loaded THEN prev ELSE Min({prev + 1, journey.length - 1})
\* The updater of handlePrev: prev => Math.max(prev - 1, -1)
PrevIndex(prev) == Max({prev - 1, -1})

\* The auto-play effect has a timer armed: it is set by the effect of the
\* render in which isPlaying, journeyData and the index make its condition
\* hold, and cleared by the cleanup of that effect at the next render that
\* changes one of them.
TimerArmed ==
    /\ isPlaying
    /\ journeyData.loaded
    /\ activeWaypointIndex < journeyData.length - 1

playRest == <<value, settingsVars, stored, uiLog, isLoading, error, journeyData,
              inFlight, settled, textVars, dispatchVars, rq, serverVars, formVars, ollamaVars>>

\* The play / pause button.
handleTogglePlay ==
    /\ ControlsShown
    /\ isPlaying' = ~isPlaying
    /\ UNCHANGED <<activeWaypointIndex, showPanel, playRest>>

\* The reset button.
handleReset ==
    /\ ControlsShown
    /\ isPlaying' = FALSE
    /\ activeWaypointIndex' = -1
    /\ UNCHANGED <<showPanel, playRest>>

\* The next button (disabled={!canGoNext}).
handleNext ==
    /\ ControlsShown
    /\ canGoNext(activeWaypointIndex, journeyData)
    /\ activeWaypointIndex' = NextIndex(activeWaypointIndex, journeyData)
    /\ UNCHANGED <<isPlaying, showPanel, playRest>>

\* The prev button (disabled={!canGoPrev}).
handlePrev ==
    /\ ControlsShown
    /\ canGoPrev(activeWaypointIndex)
    /\ activeWaypointIndex' = PrevIndex(activeWaypointIndex)
    /\ UNCHANGED <<isPlaying, showPanel, playRest>>

\* The timer of the auto-play effect fires: handleNext().
AutoPlayTick ==
    /\ TimerArmed
    /\ activeWaypointIndex' = NextIndex(activeWaypointIndex, journeyData)
    /\ UNCHANGED <<isPlaying, showPanel, playRest>>

\* The else branch of the auto-play effect: setIsPlaying(false).
AutoPlayStops ==
    /\ isPlaying
    /\ journeyData.loaded
    /\ ~(activeWaypointIndex < journeyData.length - 1)
    /\ isPlaying' = FALSE
    /\ UNCHANGED <<activeWaypointIndex, showPanel, playRest>>

\* onClose of the info panel (b = FALSE) and the button that reopens it
\* (b = TRUE); each is rendered only when showPanel is the other value.
setShowPanel(b) ==
    /\ ControlsShown
    /\ showPanel # b
    /\ showPanel' = b
    /\ UNCHANGED <<activeWaypointIndex, isPlaying, playRest>>

\* What the user can do to the App.
UserActs ==
    \/ \E k \in 1..MaxSuggestions : handleSuggestion(SUGGESTIONS[k])
    \/ handleTogglePlay
    \/ handleReset
    \/ handleNext
    \/ handlePrev
    \/ \E b \in BOOLEAN : setShowPanel(b)

NextApp ==
    \/ \E k \in 1..MaxSuggestions : handleSuggestion(SUGGESTIONS[k])
    \/ \E i \in 1..MaxInFlight : FetchResolves(i)
    \/ \E i \in 1..MaxInFlight,
          m \in FetchErrors \cup MissingCredentialMessages : FetchRejects(i, m)
    \/ handleTogglePlay
    \/ handleReset
    \/ handleNext
    \/ handlePrev
    \/ AutoPlayTick
    \/ AutoPlayStops
    \/ \E b \in BOOLEAN : setShowPanel(b)

SpecApp == InitUI /\ [][NextApp]_vars

\* ------------------------------------ SpecForm: SearchInput and its props
\* SearchInput alone: its state, the item in localStorage, and its two props.
\* onSearch holds the call made by the current step; isLoading is driven the
\* way App drives it (true from the call of onSearch until the search ends).
\* uiLog names the handler the current step ran.
FormStoredSamples ==
    {NoStored,
     saveConfig([DefaultApiKeys EXCEPT !["openai-api"] = "sk-key"],
                DefaultOllamaConfig, "openai-api")}
    \cup ForeignStored

\* What App and the rest of the page are in while only the form is explored.
IdleApp ==
    /\ error = Null
    /\ journeyData = NoJourney
    /\ activeWaypointIndex = -1
    /\ isPlaying = FALSE
    /\ showPanel = FALSE
    /\ inFlight = <<>>
    /\ settled = Pending

InitForm ==
    /\ stored \in FormStoredSamples
    /\ value = ""
    /\ provider = LoadedSettings(stored).provider
    /\ apiKeys = LoadedSettings(stored).apiKeys
    /\ ollamaConfig = LoadedSettings(stored).ollamaConfig
    /\ showProviders = FALSE
    /\ showSettings = FALSE
    /\ cliAgents \in CliAgentReports
    /\ isLoading = FALSE
    /\ onSearch = NoSearch
    /\ uiLog = UiLog("mount", FALSE)
    /\ IdleOllama
    /\ IdleApp
    /\ IdleText
    /\ IdleDispatch
    /\ IdleServer

formRest == <<error, journeyData, activeWaypointIndex, isPlaying, showPanel,
              inFlight, settled, textVars, dispatchVars, rq, serverVars,
              ollamaVars>>

\* The page is loaded again: the component mounts with its initial state and
\* the load-saved-config effect runs; the availability check is answered.
Mount ==
    /\ value' = ""
    /\ provider' = LoadedSettings(stored).provider
    /\ apiKeys' = LoadedSettings(stored).apiKeys
    /\ ollamaConfig' = LoadedSettings(stored).ollamaConfig
    /\ showProviders' = FALSE
    /\ showSettings' = FALSE
    /\ cliAgents' \in CliAgentReports
    /\ isLoading' = FALSE
    /\ onSearch' = NoSearch
    /\ uiLog' = UiLog("mount", FALSE)
    /\ UNCHANGED <<stored, formRest>>

\* onChange of the search field (the field is disabled while loading).
setValue(v) ==
    /\ ~isLoading
    /\ value' = v
    /\ onSearch' = NoSearch
    /\ uiLog' = UiLog("none", FALSE)
    /\ UNCHANGED <<settingsVars, stored, showProviders, showSettings, cliAgents,
                   isLoading, formRest>>

\* SearchInput.handleSearch with the props: the config is built, saveConfig()
\* writes the item, onSearch(word, config) is called and App sets isLoading.
FormHandleSearch(word) ==
    /\ stored' = saveConfig(apiKeys, ollamaConfig, provider)
    /\ onSearch' = SearchCall(word, SearchConfig(word))
    /\ isLoading' = TRUE

\* The form is submitted (Enter, or the TRACE button): the browser does not
\* submit a form whose submit button is disabled (isLoading || needsSetup).
FormSubmit ==
    /\ ~(isLoading \/ needsSetup(provider, apiKeys, ollamaConfig))
    /\ IF SubmitAllowed(value, isLoading)
       THEN /\ FormHandleSearch(trim(value))
            /\ uiLog' = UiLog("handleSubmit", TRUE)
       ELSE /\ onSearch' = NoSearch
            /\ uiLog' = UiLog("handleSubmit", FALSE)
            /\ UNCHANGED <<stored, isLoading>>
    /\ UNCHANGED <<value, settingsVars, showProviders, showSettings, cliAgents,
                   formRest>>

\* A suggestion button is clicked (the buttons are disabled while loading).
SuggestionClick(suggestion) ==
    /\ ~isLoading
    /\ IF SuggestionAllowed(isLoading)
       THEN /\ FormHandleSearch(suggestion)
            /\ uiLog' = UiLog("handleSuggestion", TRUE)
       ELSE /\ onSearch' = NoSearch
            /\ uiLog' = UiLog("handleSuggestion", FALSE)
            /\ UNCHANGED <<stored, isLoading>>
    /\ UNCHANGED <<value, settingsVars, showProviders, showSettings, cliAgents,
                   formRest>>

\* The search ends (the finally of App.handleSearch).
SearchEnds ==
    /\ isLoading
    /\ isLoading' = FALSE
    /\ onSearch' = NoSearch
    /\ uiLog' = UiLog("none", FALSE)
    /\ UNCHANGED <<value, settingsVars, stored, showProviders, showSettings,
                   cliAgents, formRest>>

formQuiet ==
    /\ onSearch' = NoSearch
    /\ uiLog' = UiLog("none", FALSE)
    /\ UNCHANGED <<value, stored, cliAgents, isLoading, formRest>>

\* The current-provider button and the settings button.
ToggleProviders ==
    /\ showProviders' = ~showProviders
    /\ formQuiet
    /\ UNCHANGED <<settingsVars, showSettings>>

ToggleSettings ==
    /\ showSettings' = ~showSettings
    /\ formQuiet
    /\ UNCHANGED <<settingsVars, showProviders>>

\* A CLI agent of the dropdown is clicked.
SelectCli(p) ==
    /\ showProviders
    /\ IF isInstalled(cliAgents, p)
       THEN provider' = p /\ showProviders' = FALSE
       ELSE UNCHANGED <<provider, showProviders>>
    /\ formQuiet
    /\ UNCHANGED <<apiKeys, ollamaConfig, showSettings>>

\* A hosted API of the dropdown is clicked.
SelectApi(p) ==
    /\ showProviders
    /\ provider' = p
    /\ showProviders' = FALSE
    /\ showSettings' = (IF apiKeys[p] = "" THEN TRUE ELSE showSettings)
    /\ formQuiet
    /\ UNCHANGED <<apiKeys, ollamaConfig>>

\* Ollama is clicked in the dropdown.
SelectLocal ==
    /\ showProviders
    /\ provider' = "ollama"
    /\ showProviders' = FALSE
    /\ showSettings' = TRUE
    /\ formQuiet
    /\ UNCHANGED <<apiKeys, ollamaConfig>>

\* An API key field of the settings panel is edited.
SetApiKey(p, v) ==
    /\ showSettings
    /\ apiKeys' = [apiKeys EXCEPT ![p] = v]
    /\ formQuiet
    /\ UNCHANGED <<provider, ollamaConfig, showProviders, showSettings>>

\* The Ollama base URL field is edited.
SetOllamaBaseUrl(v) ==
    /\ showSettings
    /\ ollamaConfig' = [ollamaConfig EXCEPT !.baseUrl = v]
    /\ formQuiet
    /\ UNCHANGED <<provider, apiKeys, showProviders, showSettings>>

\* Save Settings is clicked: saveConfig().
SaveSettings ==
    /\ showSettings
    /\ stored' = saveConfig(apiKeys, ollamaConfig, provider)
    /\ onSearch' = NoSearch
    /\ uiLog' = UiLog("saveConfig", FALSE)
    /\ UNCHANGED <<value, settingsVars, showProviders, showSettings, cliAgents,
                   isLoading, formRest>>

NextForm ==
    \/ Mount
    \/ \E v \in TypedValues : setValue(v)
    \/ FormSubmit
    \/ \E k \in 1..MaxSuggestions : SuggestionClick(SUGGESTIONS[k])
    \/ SearchEnds
    \/ ToggleProviders
    \/ ToggleSettings
    \/ \E p \in CliProviders : SelectCli(p)
    \/ \E p \in KeyProviders : SelectApi(p)
    \/ SelectLocal
    \/ \E p \in EditedKeys, v \in TypedKeys : SetApiKey(p, v)
    \/ \E v \in TypedBaseUrls : SetOllamaBaseUrl(v)
    \/ SaveSettings

SpecForm == InitForm /\ [][NextForm]_vars

\* --------------------------- SpecOllama: the model list of the settings panel
\* SearchInput's Ollama settings: the settings panel, the provider, the
\* endpoint and model fields, fetchOllamaModels and the effect that calls it.
\* A handler changes state, React renders, and the effect runs if one of its
\* dependencies changed, before the next event is handled.

\* Model names typed into the model field.
TypedModels == {"llama3", "phi"}

\* What `await fetch('/api/ollama/tags?...')` and `await res.json()` give:
\* the relay's answer, or nothing when the relay cannot be reached.
TagsAnswers == {ollamaTags(up) : up \in TagsUpstreams}
NoAnswer == RouteResponse(0, <<>>, Absent, Absent, <<>>)

Names(models) == {models[k] : k \in 1..Len(models)}

\* fetchOllamaModels after its awaits, for the answer `data`, in the closure
\* that holds the ollamaConfig `closure`: the model list, the error, and
\* whether the configured model is replaced by the first of the list.
ModelsAfter(data) == IF data = NoAnswer \/ data.error # Absent THEN <<>> ELSE data.models
ErrorAfter(data) ==
    IF data = NoAnswer THEN "Failed to connect to Ollama"
    ELSE IF data.error # Absent
         THEN (IF data.message \in {Absent, ""} THEN "Ollama not available"
               ELSE data.message)
    ELSE Null
Replaces(data, closure, current) ==
    /\ ModelsAfter(data) # <<>>
    /\ closure.model \notin Names(ModelsAfter(data))

ollamaRest == <<value, apiKeys, stored, cliAgents, onSearch, uiLog, isLoading,
                error, journeyData, activeWaypointIndex, isPlaying, showPanel,
                inFlight, settled, textVars, dispatchVars, rq, serverVars>>

\* SearchInput has mounted and the saved config has been loaded; the effects
\* of that render are due.
InitOllama ==
    /\ stored \in {NoStored, saveConfig(DefaultApiKeys, DefaultOllamaConfig, "ollama")}
    /\ value = ""
    /\ provider = LoadedSettings(stored).provider
    /\ apiKeys = LoadedSettings(stored).apiKeys
    /\ ollamaConfig = LoadedSettings(stored).ollamaConfig
    /\ showProviders = FALSE
    /\ showSettings = FALSE
    /\ cliAgents = <<>>
    /\ isLoading = FALSE
    /\ onSearch = NoSearch
    /\ uiLog = UiLog("mount", FALSE)
    /\ ollamaModels = <<>>
    /\ ollamaLoading = FALSE
    /\ ollamaError = Null
    /\ tagFetches = <<>>
    /\ effectDue = TRUE
    /\ IdleApp
    /\ IdleText
    /\ IdleDispatch
    /\ IdleServer

\* An event is handled only after the effects of the last render have run.
Rendered == ~effectDue /\ Len(tagFetches) < MaxTagFetches

\* The effect: if (showSettings || provider === 'ollama') fetchOllamaModels(),
\* and fetchOllamaModels up to its first await.
FetchModelsEffect ==
    /\ effectDue
    /\ effectDue' = FALSE
    /\ IF showSettings \/ provider = "ollama"
       THEN /\ ollamaLoading' = TRUE
            /\ ollamaError' = Null
            /\ tagFetches' = Append(tagFetches, ollamaConfig)
       ELSE UNCHANGED <<ollamaLoading, ollamaError, tagFetches>>
    /\ UNCHANGED <<showProviders, showSettings, provider, ollamaConfig,
                   ollamaModels, ollamaRest>>

\* The settings button.
OllamaToggleSettings ==
    /\ Rendered
    /\ showSettings' = ~showSettings
    /\ effectDue' = TRUE
    /\ UNCHANGED <<showProviders, provider, ollamaConfig, ollamaModels,
                   ollamaLoading, ollamaError, tagFetches, ollamaRest>>

\* The current-provider button.
OllamaToggleProviders ==
    /\ Rendered
    /\ showProviders' = ~showProviders
    /\ UNCHANGED <<showSettings, provider, ollamaConfig, ollamaVars, ollamaRest>>

\* The Ollama entry of the dropdown:
\* setProvider(p.id); setShowProviders(false); setShowSettings(true)
OllamaSelectLocal ==
    /\ Rendered
    /\ showProviders
    /\ provider' = "ollama"
    /\ showProviders' = FALSE
    /\ showSettings' = TRUE
    /\ effectDue' = (provider # "ollama" \/ ~showSettings)
    /\ UNCHANGED <<ollamaConfig, ollamaModels, ollamaLoading, ollamaError,
                   tagFetches, ollamaRest>>

\* A hosted API of the dropdown:
\* setProvider(p.id); setShowProviders(false); if (!apiKeys[p.id]) setShowSettings(true)
OllamaSelectApi(p) ==
    /\ Rendered
    /\ showProviders
    /\ provider' = p
    /\ showProviders' = FALSE
    /\ showSettings' = IF apiKeys[p] = "" THEN TRUE ELSE showSettings
    /\ effectDue' = (provider' # provider \/ showSettings' # showSettings)
    /\ UNCHANGED <<ollamaConfig, ollamaModels, ollamaLoading, ollamaError,
                   tagFetches, ollamaRest>>

\* onChange of the endpoint field and of the model field of the settings
\* panel.  The model field is absent while ollamaError is set, a <select> of
\* the listed models when the list is not empty, and a text input otherwise.
setOllamaConfig(field, v) ==
    /\ Rendered
    /\ showSettings
    /\ \/ field = "baseUrl" /\ v \in TypedBaseUrls
       \/ /\ field = "model"
          /\ ollamaError = Null
          /\ IF ollamaModels # <<>> THEN v \in Names(ollamaModels)
             ELSE v \in TypedModels
    /\ ollamaConfig' = [ollamaConfig EXCEPT ![field] = v]
    /\ effectDue' = (ollamaConfig' # ollamaConfig)
    /\ UNCHANGED <<showProviders, showSettings, provider, ollamaModels,
                   ollamaLoading, ollamaError, tagFetches, ollamaRest>>

\* onBlur={fetchOllamaModels} of the endpoint field: fetchOllamaModels up to
\* its first await.
OllamaBaseUrlBlur ==
    /\ Rendered
    /\ showSettings
    /\ ollamaLoading' = TRUE
    /\ ollamaError' = Null
    /\ tagFetches' = Append(tagFetches, ollamaConfig)
    /\ UNCHANGED <<showProviders, showSettings, provider, ollamaConfig,
                   ollamaModels, effectDue, ollamaRest>>

\* A pending fetchOllamaModels goes on after its awaits: the try or the
\* catch, then the finally.
OllamaModelsFetched(i, data) ==
    /\ ~effectDue
    /\ i \in 1..Len(tagFetches)
    /\ ollamaModels' = ModelsAfter(data)
    /\ ollamaError' = IF ErrorAfter(data) = Null THEN ollamaError ELSE ErrorAfter(data)
    /\ ollamaConfig' = IF Replaces(data, tagFetches[i], ollamaConfig)
                       THEN [ollamaConfig EXCEPT !.model = ModelsAfter(data)[1]]
                       ELSE ollamaConfig
    /\ ollamaLoading' = FALSE
    /\ tagFetches' = RemoveAt(tagFetches, i)
    /\ effectDue' = (ollamaConfig' # ollamaConfig)
    /\ UNCHANGED <<showProviders, showSettings, provider, ollamaRest>>

NextOllama ==
    \/ FetchModelsEffect
    \/ OllamaToggleSettings
    \/ OllamaToggleProviders
    \/ OllamaSelectLocal
    \/ \E p \in {"gemini-api"} : OllamaSelectApi(p)
    \/ \E field \in {"baseUrl", "model"}, v \in TypedBaseUrls \cup TypedModels \cup {"mistral"} :
          setOllamaConfig(field, v)
    \/ OllamaBaseUrlBlur
    \/ \E i \in 1..MaxTagFetches, data \in TagsAnswers \cup {NoAnswer} :
          OllamaModelsFetched(i, data)

SpecOllama == InitOllama /\ [][NextOllama]_vars

\* ---------------------------------------- SpecRoutes: the relay's GET routes
InitRoutes ==
    /\ tools \in [CliProviders -> WhichOutcomes]
    /\ route = NoRoute
    /\ reqs = [i \in 1..MaxRequests |-> NoRequest]
    /\ relayUp = TRUE
    /\ IdleText
    /\ IdleDispatch
    /\ IdleUI

\* GET /api/cli-agents/check: answered within the request handler.
GetCliAgentsCheck ==
    /\ route.kind = "none"
    /\ route' = [route EXCEPT !.kind = "check", !.pc = "answered",
                              !.responses = Append(@, cliAgentsCheck(tools))]
    /\ UNCHANGED <<tools, reqs, relayUp, textVars, dispatchVars, rq, uiVars>>

\* GET /api/ollama/tags[?baseUrl=...]: up to `await fetch`.
GetOllamaTags(param) ==
    /\ route.kind = "none"
    /\ route' = [route EXCEPT !.kind = "tags", !.pc = "fetching",
                              !.baseUrlParam = param, !.fetched = tagsUrl(param)]
    /\ UNCHANGED <<tools, reqs, relayUp, textVars, dispatchVars, rq, uiVars>>

\* The fetch of the model list settles and the handler runs to its end.
TagsFetchSettles(up) ==
    /\ relayUp
    /\ route.pc = "fetching"
    /\ route' = [route EXCEPT !.pc = "answered", !.upstream = up,
                              !.responses = Append(@, ollamaTags(up))]
    /\ UNCHANGED <<tools, reqs, relayUp, textVars, dispatchVars, rq, uiVars>>

NextRoutes ==
    \/ GetCliAgentsCheck
    \/ \E param \in BaseUrls : GetOllamaTags(param)
    \/ \E up \in TagsUpstreams : TagsFetchSettles(up)

SpecRoutes == InitRoutes /\ [][NextRoutes]_vars

\* The fetch of Node settles: it resolves, or rejects (connection refused,
\* headers timeout).
FairRoutes == SpecRoutes /\ WF_vars(\E up \in TagsUpstreams : TagsFetchSettles(up))

\* --------------------------------- SpecRelay: concurrent cli-agent requests
InitRelay == Init

othersIdle == <<tools, route, textVars, dispatchVars, rq, uiVars>>

\* An uncaught exception thrown from a listener ends the relay process.
relayAfter(r) == IF r.threw THEN FALSE ELSE relayUp

PostAt(i, body) ==
    /\ relayUp
    /\ reqs[i].proc = "none"
    /\ reqs' = [reqs EXCEPT ![i] = SentRequest(body)]
    /\ UNCHANGED <<relayUp, othersIdle>>

RelayReceiveAt(i) ==
    /\ relayUp
    /\ reqs[i].proc = "sent"
    /\ reqs' = [reqs EXCEPT ![i] = relayOnEnd(@)]
    /\ UNCHANGED <<relayUp, othersIdle>>

ProcStdoutAt(i) ==
    /\ relayUp
    /\ reqs[i].proc = "running"
    /\ reqs[i].dataEvents < MaxChunks
    /\ reqs' = [reqs EXCEPT ![i].output = @ \o toString(StdoutOf(i)),
                             ![i].stdout = @ \o StdoutOf(i),
                             ![i].dataEvents = @ + 1]
    /\ UNCHANGED <<relayUp, othersIdle>>

ProcStderrAt(i) ==
    /\ relayUp
    /\ reqs[i].proc = "running"
    /\ reqs[i].dataEvents < MaxChunks
    /\ reqs' = [reqs EXCEPT ![i].errorOutput = @ \o StderrOf(i),
                            ![i].dataEvents = @ + 1]
    /\ UNCHANGED <<relayUp, othersIdle>>

ProcExitAt(i, code) ==
    /\ relayUp
    /\ reqs[i].proc = "running"
    /\ reqs' = [reqs EXCEPT ![i] = relayOnClose(@, code)]
    /\ UNCHANGED <<relayUp, othersIdle>>

\* The spawn of request i fails (ENOENT, EAGAIN): 'error' is emitted ...
SpawnErrorAt(i) ==
    /\ relayUp
    /\ reqs[i].proc = "running"
    /\ reqs[i].dataEvents = 0
    /\ reqs' = [reqs EXCEPT ![i] = relayOnError(@, "spawn python3 EAGAIN")]
    /\ UNCHANGED <<relayUp, othersIdle>>

\* ... and 'close' after it: the second writeHead throws out of the listener.
CloseAfterErrorAt(i) ==
    /\ relayUp
    /\ reqs[i].proc = "errored"
    /\ reqs' = [reqs EXCEPT ![i] = relayOnClose(@, SpawnFailedCode)]
    /\ relayUp' = relayAfter(relayOnClose(reqs[i], SpawnFailedCode))
    /\ UNCHANGED othersIdle

SpawnTimeoutAt(i) ==
    /\ relayUp
    /\ reqs[i].proc = "running"
    /\ reqs' = [reqs EXCEPT ![i].proc = "killed"]
    /\ UNCHANGED <<relayUp, othersIdle>>

CloseAfterKillAt(i) ==
    /\ relayUp
    /\ reqs[i].proc = "killed"
    /\ reqs' = [reqs EXCEPT ![i] = relayOnClose(@, KilledCode)]
    /\ UNCHANGED <<relayUp, othersIdle>>

NextRelay ==
    \E i \in 1..MaxRequests :
        \/ \E body \in ConcurrentBodies : PostAt(i, body)
        \/ RelayReceiveAt(i)
        \/ ProcStdoutAt(i)
        \/ ProcStderrAt(i)
        \/ \E code \in ExitCodes : ProcExitAt(i, code)
        \/ SpawnErrorAt(i)
        \/ CloseAfterErrorAt(i)
        \/ SpawnTimeoutAt(i)
        \/ CloseAfterKillAt(i)

SpecRelay == InitRelay /\ [][NextRelay]_vars

\* -------------------------------------- SpecServer: the relay's handler
\* The request handler of createServer for any method and url, next to one
\* cli-agent request and its subprocess.  A url is its path followed, when
\* it has one, by the value of its query.
Methods == {"OPTIONS", "GET", "POST", "PUT"}
Urls ==
    { <<"/api/cli-agents/check">>, <<"/api/cli-agents/check", "x">>,
      <<"/api/ollama/tags">>, <<"/api/ollama/tags", "http://gpu-box:11434">>,
      <<"/api/cli-agent">>, <<"/">> }

\* The branch of the handler a request takes, in the order of its tests.
RouteOf(method, url) ==
    IF method = "OPTIONS" THEN "options"
    ELSE IF method = "GET" /\ url = <<"/api/cli-agents/check">> THEN "check"
    ELSE IF method = "GET" /\ url[1] = "/api/ollama/tags" THEN "tags"
    ELSE IF method = "POST" /\ url = <<"/api/cli-agent">> THEN "cli-agent"
    ELSE "notFound"

\* The handler up to its return (or, for the model list, to its await).
Request(method, url) ==
    /\ relayUp
    /\ \/ /\ RouteOf(method, url) = "cli-agent"
          /\ reqs[1].proc = "none"
          /\ \E body \in ConcurrentBodies :
                reqs' = [reqs EXCEPT ![1] = SentRequest(body)]
          /\ UNCHANGED route
       \/ /\ RouteOf(method, url) # "cli-agent"
          /\ route.kind = "none"
          /\ route' =
               LET r == [route EXCEPT !.kind = RouteOf(method, url),
                                      !.method = method, !.url = url]
               IN  CASE r.kind = "options" ->
                          [r EXCEPT !.pc = "answered",
                                    !.responses = Append(@,
                                        RouteResponse(204, <<>>, Absent, Absent, <<>>))]
                     [] r.kind = "check" ->
                          [r EXCEPT !.pc = "answered",
                                    !.responses = Append(@, cliAgentsCheck(tools))]
                     [] r.kind = "tags" ->
                          [r EXCEPT !.pc = "fetching",
                                    !.baseUrlParam = IF Len(url) > 1 THEN url[2] ELSE Absent,
                                    !.fetched = tagsUrl(IF Len(url) > 1 THEN url[2] ELSE Absent)]
                     [] r.kind = "notFound" ->
                          [r EXCEPT !.pc = "answered",
                                    !.responses = Append(@,
                                        RouteResponse(404, <<>>, Absent, Absent, <<>>))]
          /\ UNCHANGED reqs
    /\ UNCHANGED <<tools, relayUp, textVars, dispatchVars, rq, uiVars>>

NextServer ==
    \/ \E method \in Methods, url \in Urls : Request(method, url)
    \/ \E up \in TagsUpstreams : TagsFetchSettles(up)
    \/ RelayReceiveAt(1)
    \/ ProcStdoutAt(1)
    \/ ProcStderrAt(1)
    \/ \E code \in ExitCodes : ProcExitAt(1, code)
    \/ SpawnErrorAt(1)
    \/ CloseAfterErrorAt(1)
    \/ SpawnTimeoutAt(1)
    \/ CloseAfterKillAt(1)

SpecServer == InitRoutes /\ [][NextServer]_vars

\* ------------------------------------------------------ extraction claims
\* The spans of text that are well-formed JSON objects.
ObjectSpans(text) ==
    {sp \in (1..Len(text)) \X (1..Len(text)) :
        /\ sp[1] < sp[2]
        /\ text[sp[1]] = "{"
        /\ JSONparse(SubSeq(text, sp[1], sp[2])).kind = "result"}

HasObject(text) == ObjectSpans(text) # {}

\* The first well-formed object of a text: the one that starts leftmost.
FirstObject(text) ==
    LET first == CHOOSE sp \in ObjectSpans(text) :
                     \A other \in ObjectSpans(text) : sp[1] <= other[1]
    IN  SubSeq(text, first[1], first[2])

\* C2: from a raw text that holds a JSON object anywhere in surrounding text
\* (which may itself hold braces), the regex extraction of the CLI, Anthropic
\* and Ollama adapters and of the tool returns exactly the first well-formed
\* object.
C2_ExtractionRecoversObject ==
    (exBy \in RegexAdapters /\ HasObject(raw))
        => exOut = JSONparse(FirstObject(raw))

\* C3: from a raw text that holds no JSON object, every adapter and the tool
\* fail and none returns a Result.
C3_NoObjectFails ==
    (exBy # "none" /\ ~HasObject(raw)) => exOut.kind = "error"

\* --------------------------------------------------------- dispatch claims
\* C1: for gemini-api, openai-api and anthropic-api, a dispatch whose apiKey is
\* absent or empty fails at once with the missing-credential error of its
\* provider; no adapter is entered, no outbound call is issued and the relay
\* sees no request.
C1_MissingCredentialNoCall ==
    (dPc \notin {"idle", "external"}
        /\ config.provider \in {"gemini-api", "openai-api", "anthropic-api"}
        /\ config.apiKey \in {Absent, ""})
    => /\ dPc = "done"
       /\ outcome.kind = "error"
       /\ outcome.err \in MissingCredentialMessages
       /\ outcome.err = KeyRequiredMessage(config.provider)
       /\ adapterCalls = <<>>
       /\ outbound = <<>>
       /\ reply = NoReply
       /\ rq = NoRequest

C1_Witness ==
    /\ dPc = "done"
    /\ config.provider = "anthropic-api"
    /\ config.apiKey = ""
    /\ outcome = Thrown("API key required for Anthropic API")

\* C4: a dispatch never enters more than one adapter nor issues more than one
\* outbound call, whatever the call's outcome; a dispatch that passes the
\* credential check has entered exactly one adapter, the one of its
\* identifier, and its outbound call goes to that adapter's backend; a failed
\* dispatch has not repeated the call nor entered another backend's adapter.
C4_OneAdapterOneCall ==
    /\ Len(adapterCalls) <= 1
    /\ Len(outbound) <= 1
    /\ (dPc \notin {"idle", "external"}
            /\ ~(config.provider \in {"gemini-api", "openai-api", "anthropic-api"}
                    /\ config.apiKey \in {Absent, ""}))
        => adapterCalls = <<AdapterFor(config.provider)>>
    /\ outbound # <<>> => outbound[1] = OutboundCall(config)
    /\ (dPc = "done" /\ outcome.kind = "error" /\ reply # NoReply)
        => (Len(outbound) = 1 /\ Len(adapterCalls) = 1)

\* C4 as worded, for every identifier without exception: every dispatch that
\* has been made has entered exactly one adapter. A dispatch rejected for a
\* missing credential has entered none.
C4_ExactlyOneAdapterAlways ==
    dPc \notin {"idle", "external"} => Len(adapterCalls) = 1

C4_Witness ==
    /\ dPc = "done"
    /\ config.provider = "openai-api"
    /\ reply.kind = "status"
    /\ outcome.kind = "error"
    /\ Len(outbound) = 1
    /\ adapterCalls = <<"fetchWordJourneyOpenAI">>

\* C5: the relay's handlers write exactly one HTTP response per cli-agent
\* request, under every order of subprocess events: once the request has
\* ended (answered by the catch, by 'error' or by 'close') one response has
\* been written, and no event writes again.
C5_ExactlyOneResponse ==
    /\ rq.writeCalls <= 1
    /\ ~rq.threw
    /\ rq.proc \in {"rejected", "errored", "closed"} => rq.writeCalls = 1

\* C6: whenever the subprocess ends with a non-zero exit code the relay
\* answers with a non-2xx status and the CLI adapter fails with an upstream
\* error, whether or not anything was written to standard output.
C6_NonZeroExitFails ==
    (rq.code \in {"1", SpawnFailedCode} /\ rq.responses # <<>>)
    => /\ rq.responses[1].status # 200
       /\ (dPc = "done" /\ reply.kind # "reject")
            => outcome = Thrown("CLI agent error: Internal Server Error")

\* C7: when the subprocess was terminated because its timeout elapsed, the
\* relay does not answer 200 with the output captured before the kill and the
\* dispatch does not succeed.
C7_TimeoutNotSalvaged ==
    (rq.code = KilledCode /\ rq.responses # <<>>)
    => /\ rq.responses[1].status # 200
       /\ dPc = "done" => outcome.kind = "error"

\* C9: when the outbound call comes back with a non-success status and the
\* backend supplied a message, the dispatch fails with an error that carries
\* it (for the hosted APIs and Ollama the message of the error body or the
\* status text, possibly behind the adapter's prefix; for the CLI adapter the
\* error text of the relay's failure body), and no Result is returned.
ErrorPrefixes ==
    {"", "[GoogleGenerativeAI Error]: ", "Ollama error: ", "CLI agent error: "}

Carries(err, m) == \E prefix \in ErrorPrefixes : err = prefix \o m

C9_UpstreamMessageSurfaced ==
    (dPc = "done" /\ reply.kind = "status" /\ reply.jsonBody
        /\ reply.message # Absent)
    => /\ outcome.kind = "error"
       /\ IF outbound[1].to = RelayUrl
          THEN Carries(outcome.err, reply.message)
          ELSE Carries(outcome.err, reply.message)
                \/ Carries(outcome.err, reply.statusText)

\* ------------------------------------------------- FairSpec: what must happen
\* The steps the code and its platform take by themselves: a dynamic import
\* settles, an armed timer fires, a request to the local relay arrives or
\* fails, a killed subprocess closes, a written response is delivered.  That
\* a backend answers, or that a subprocess writes or exits, is not assumed.
Fairness ==
    /\ WF_vars(\E loaded \in BOOLEAN : GeminiImport(loaded))
    /\ WF_vars(MockTimer)
    /\ WF_vars(RelayReceive \/ RelayUnreachable)
    /\ WF_vars(SpawnTimeout)
    /\ WF_vars(CloseAfterKill)
    /\ WF_vars(DeliverResponse)

FairSpec == Init /\ [][Next]_vars /\ Fairness

\* C8: for every backend identifier a dispatch that has started eventually
\* completes (with a Result or a failure); it does not stay pending forever
\* when the backend never answers.
C8_EventuallyCompletes ==
    (dPc \in {"importing", "awaiting", "mockTimer"}) ~> (dPc = "done")

\* The same for the four CLI agents only, where the relay arms the spawn
\* timeout.
CliDispatchCompletes ==
    (dPc = "awaiting" /\ config.provider \in CliProviders) ~> (dPc = "done")

\* --------------------------------------------------------------- UI claims
\* C10: at most one fetchWordJourney call is in flight, and one is in flight
\* exactly while isLoading is true; while isLoading is true no form submission
\* and no suggestion click starts a request, so a request starts only after
\* the previous one has completed or failed.
C10_SingleRequestInFlight ==
    /\ [](Len(inFlight) <= 1 /\ (isLoading <=> inFlight # <<>>))
    /\ [][isLoading => (Len(inFlight') <= Len(inFlight) /\ stored' = stored)]_vars

C10_Witness ==
    /\ isLoading
    /\ Len(inFlight) = 1
    /\ uiLog = UiLog("handleSuggestion", FALSE)

\* C11: every call of onSearch for a backend that requires a credential
\* carries a non-empty apiKey, over every sequence of provider selections,
\* settings edits, form submissions and suggestion clicks.
C11_SearchCarriesCredential ==
    (onSearch.called /\ onSearch.config.provider \in {"gemini-api", "openai-api", "anthropic-api"})
        => onSearch.config.apiKey \notin {"", Absent}

\* The same for the calls made by a form submission only: the disabled submit
\* button keeps those from being made without the credential.
SubmitCarriesCredential ==
    (onSearch.called /\ uiLog.handler = "handleSubmit"
        /\ onSearch.config.provider \in {"gemini-api", "openai-api", "anthropic-api"})
        => onSearch.config.apiKey \notin {"", Absent}

\* C12: when a dispatch fails with an Error the error state is that Error's
\* message unaltered and isLoading is false again; no dispatch is made after
\* it except by a form submission or a suggestion click; a successful search
\* leaves the error null and a newly started one clears it.
C12_FailureSurfacedVerbatim ==
    /\ [](settled.kind = "error"
            => (error = settled.err /\ ~isLoading /\ inFlight = <<>>))
    /\ [](settled.kind = "result" => (error = Null /\ ~isLoading))
    /\ [][(Len(inFlight') > Len(inFlight))
            => /\ uiLog'.called
               /\ uiLog'.handler \in {"handleSubmit", "handleSuggestion"}
               /\ error' = Null]_vars

C12_Witness ==
    /\ settled = Thrown("No valid JSON in response")
    /\ error = "No valid JSON in response"
    /\ ~isLoading
    /\ journeyData # NoJourney

\* C13: whatever tools the host has, the availability route answers once,
\* with status 200 and no error, four entries in the order gemini, claude,
\* codex, qwen, and installed true exactly for the tools `which` found.
C13_AvailabilityReport ==
    route.kind = "check" =>
        /\ Len(route.responses) = 1
        /\ route.responses[1].status = 200
        /\ route.responses[1].error = Absent
        /\ Len(route.responses[1].agents) = 4
        /\ \A i \in 1..4 :
              LET entry == route.responses[1].agents[i]
                  name  == <<"gemini", "claude", "codex", "qwen">>[i]
              IN  /\ entry.name = name
                  /\ entry.installed = (tools[name] = "found")

C13_Witness ==
    /\ route.kind = "check"
    /\ tools["gemini"] = "found"
    /\ tools["claude"] = "missing"
    /\ route.responses[1].agents[1].installed
    /\ ~route.responses[1].agents[2].installed

\* C14: each concurrent cli-agent request is answered from its own
\* subprocess only, and a request that has been received stays answerable
\* whatever happens to the other requests.
C14_RequestsIsolated ==
    \A i \in 1..MaxRequests :
        /\ \A k \in 1..Len(reqs[i].responses) :
              \A n \in 1..Len(reqs[i].responses[k].output) :
                  reqs[i].responses[k].output[n] \in
                      {StdoutOf(i)[1], StderrOf(i)[1]}
        /\ (reqs[i].proc \in {"sent", "running", "killed"}) => relayUp

\* The buffers by themselves are per request: no response holds the output of
\* another request's subprocess.
OwnOutputOnly ==
    \A i \in 1..MaxRequests :
        \A k \in 1..Len(reqs[i].responses) :
            \A n \in 1..Len(reqs[i].responses[k].output) :
                reqs[i].responses[k].output[n] \in {StdoutOf(i)[1], StderrOf(i)[1]}

\* C15: the adapter entered is fixed by the identifier (the four CLI agents
\* to the relay adapter with the identifier as the model, each hosted API
\* and Ollama to its own adapter, any other identifier to the mock adapter),
\* it is entered whenever the credential check passes, and what the adapter
\* produces is the outcome of the dispatch.
ExpectedAdapter(p) ==
    CASE p \in {"gemini", "claude", "codex", "qwen"} -> "fetchWordJourneyCLI"
      [] p = "gemini-api"    -> "fetchWordJourneyGeminiAPI"
      [] p = "openai-api"    -> "fetchWordJourneyOpenAI"
      [] p = "anthropic-api" -> "fetchWordJourneyAnthropic"
      [] p = "ollama"        -> "fetchWordJourneyOllama"
      [] OTHER               -> "fetchWordJourneyMock"

C15_RoutingByIdentifier ==
    (dPc \notin {"idle", "external"}) =>
        /\ adapterCalls \in {<<>>, <<ExpectedAdapter(config.provider)>>}
        /\ (adapterCalls = <<>>) =>
              (config.provider \in {"gemini-api", "openai-api", "anthropic-api"}
                  /\ config.apiKey \in {Absent, ""})
        /\ (config.provider \in {"gemini", "claude", "codex", "qwen"}) =>
              (outbound[1].to = "/api/cli-agent" /\ outbound[1].model = config.provider)
        /\ (dPc = "done" /\ reply # NoReply) =>
              outcome = AdapterContinue(config.provider, reply)
        /\ (dPc = "done" /\ ExpectedAdapter(config.provider) = "fetchWordJourneyMock") =>
              outcome = fetchWordJourneyMock(config.word)

C15_Witness ==
    /\ dPc = "done"
    /\ config.provider = "qwen"
    /\ adapterCalls = <<"fetchWordJourneyCLI">>
    /\ outbound[1].model = "qwen"
    /\ outcome.kind = "result"

\* The order values of the waypoints of a Result.
OrdersOf(val) ==
    IF val[1] = "mockData"
    THEN [i \in 1..Len(mockData[val[2]].journey) |-> mockData[val[2]].journey[i].order]
    ELSE IF Len(val) >= 2 /\ val[2] = "journey"
    THEN [i \in 1..(Len(val) - 2) |->
            CASE val[i + 2] = "o1" -> 1 [] val[i + 2] = "o2" -> 2 [] OTHER -> 3]
    ELSE <<>>

Increasing(orders) ==
    /\ orders # <<>> => orders[1] = 1
    /\ \A i \in 1..(Len(orders) - 1) : orders[i] < orders[i + 1]

\* C16: in every Result a dispatch returns, from any backend, the order
\* values of the waypoints increase along the journey and start at 1.
C16_WaypointOrderIncreasing ==
    (dPc = "done" /\ outcome.kind = "result") => Increasing(OrdersOf(outcome.val))

\* The same for the Results of the mock backend only.
MockOrderIncreasing ==
    (dPc = "done" /\ outcome.kind = "result" /\ outcome.val[1] = "mockData")
        => Increasing(OrdersOf(outcome.val))

\* C17: from the mock backend, "coffee" in any letter case returns the Result
\* with origin in Yemen in the 15th century and four waypoints ordered 1..4,
\* the last being London, 17th century, by sea; a word with no mock entry
\* (neither coffee nor tea) fails with an error.
C17_MockCoffee ==
    (dPc = "done" /\ config.provider = "mock") =>
        /\ (config.word \in {"coffee", "Coffee"}) =>
              /\ outcome = Returned(<<"mockData", "coffee">>)
              /\ mockData["coffee"].origin.countryCode = "YE"
              /\ mockData["coffee"].origin.location = "Mokha, Yemen"
              /\ mockData["coffee"].origin.century = "15th Century"
              /\ OrdersOf(outcome.val) = <<1, 2, 3, 4>>
              /\ mockData["coffee"].journey[4].location = "London, England"
              /\ mockData["coffee"].journey[4].century = "17th Century"
              /\ mockData["coffee"].journey[4].routeType = "sea"
        /\ (config.word \notin {"coffee", "Coffee", "tea"}) => outcome.kind = "error"

\* The same without the names that Object.prototype gives every object.
MockCoffeeOwnNames ==
    (dPc = "done" /\ config.provider = "mock" /\ config.word # "constructor") =>
        /\ (config.word \in {"coffee", "Coffee"}) =>
              outcome = Returned(<<"mockData", "coffee">>)
        /\ (config.word \notin {"coffee", "Coffee", "tea"}) => outcome.kind = "error"

\* C18: the registry holds eight descriptors, four CLI agents, three hosted
\* APIs and one local option, with distinct identifiers, and a backend is
\* marked needsKey exactly when fetchWordJourney rejects a request for it
\* that has no apiKey.
C18_RegistryAgreesWithDispatcher ==
    /\ Len(PROVIDERS) = 8
    /\ Cardinality({PROVIDERS[i].id : i \in 1..Len(PROVIDERS)}) = 8
    /\ Cardinality({i \in 1..Len(PROVIDERS) : PROVIDERS[i].category = "cli"}) = 4
    /\ Cardinality({i \in 1..Len(PROVIDERS) : PROVIDERS[i].category = "api"}) = 3
    /\ Cardinality({i \in 1..Len(PROVIDERS) : PROVIDERS[i].category = "local"}) = 1
    /\ (/\ dPc \notin {"idle", "external"}
        /\ config.provider \in {PROVIDERS[i].id : i \in 1..Len(PROVIDERS)}
        /\ config.apiKey \in {Absent, ""})
        => (ProviderInfo(config.provider).needsKey
              <=> (dPc = "done" /\ adapterCalls = <<>> /\ outbound = <<>>
                     /\ outcome.kind = "error"))

C18_Witness ==
    /\ dPc = "done"
    /\ config.provider = "openai-api"
    /\ config.apiKey = ""
    /\ ProviderInfo("openai-api").needsKey
    /\ outcome.kind = "error"
    /\ adapterCalls = <<>>

C21_IndexWithinJourney ==
    /\ activeWaypointIndex >= -1
    /\ activeWaypointIndex <= journeyData.length - 1
    /\ ~journeyData.loaded => activeWaypointIndex = -1
    /\ ControlsShown =>
         /\ (ENABLED handlePrev) <=> activeWaypointIndex > -1
         /\ (ENABLED handleNext) <=> activeWaypointIndex < journeyData.length - 1

\* The index stands on the last waypoint of a journey of three: Next is
\* disabled and Prev enabled.
C21_Witness ==
    /\ ControlsShown
    /\ journeyData.length = 3
    /\ activeWaypointIndex = 2
    /\ ~ENABLED handleNext
    /\ ENABLED handlePrev

\* ------------------------------------------------------------------- C22
\* The user leaves a running playback alone: the user acts only while
\* isPlaying is false (pressing play is such an act).
NextQuiet ==
    \/ ~isPlaying /\ UserActs
    \/ \E i \in 1..MaxInFlight : FetchResolves(i)
    \/ \E i \in 1..MaxInFlight,
          m \in FetchErrors \cup MissingCredentialMessages : FetchRejects(i, m)
    \/ AutoPlayTick
    \/ AutoPlayStops

\* The browser runs a timer that is armed, and React runs an effect that is
\* due; a pending fetchWordJourney need not settle.
FairQuiet ==
    InitUI /\ [][NextQuiet]_vars /\ WF_vars(AutoPlayTick) /\ WF_vars(AutoPlayStops)

\* C22: each tick of the auto-play timer advances the index by exactly one;
\* a playback the user leaves alone reaches the last waypoint and stops;
\* play pressed on the last waypoint leaves the index where it is, and the
\* playback stops without the index having moved.
C22_AutoplayAdvancesAndStops ==
    /\ [][AutoPlayTick =>
            /\ isPlaying /\ journeyData.loaded
            /\ activeWaypointIndex' = activeWaypointIndex + 1]_vars
    /\ (isPlaying /\ journeyData.loaded)
         ~> (~isPlaying /\ activeWaypointIndex = journeyData.length - 1)
    /\ [][(journeyData.loaded /\ isPlaying'
             /\ activeWaypointIndex = journeyData.length - 1)
           => /\ activeWaypointIndex' = activeWaypointIndex
              /\ journeyData' = journeyData]_vars

\* Play was pressed on the last waypoint of a journey of three.
C22_Witness ==
    /\ isPlaying
    /\ journeyData.length = 3
    /\ activeWaypointIndex = 2

\* ------------------------------------------------------------------- C23
\* C23: while isLoading is true, isPlaying is false, the index is -1, the
\* panel is closed and error is null; no playback or panel control can be
\* used, and no auto-play timer is armed.
C23_LoadingIsResetState ==
    isLoading =>
        /\ ~isPlaying
        /\ activeWaypointIndex = -1
        /\ ~showPanel
        /\ error = Null
        /\ ~TimerArmed
        /\ ~ENABLED AutoPlayTick
        /\ ~ENABLED (handleTogglePlay \/ handleReset \/ handleNext \/ handlePrev
                       \/ \E b \in BOOLEAN : setShowPanel(b))

\* A search started while a journey of three was playing past its first
\* waypoint with the panel open: the journey is still loaded.
C23_Witness ==
    /\ isLoading
    /\ journeyData.length = 3
    /\ Len(inFlight) = 1

\* ------------------------------------------------------------------- C24
\* C24: a search that fails leaves journeyData as it was, with the index -1,
\* isPlaying false and the panel closed; journeyData changes only in the
\* step in which a search succeeds, which opens the panel.
C24_FailureKeepsJourney ==
    /\ [][(isLoading \/ isLoading') /\ settled'.kind # "result"
            => journeyData' = journeyData]_vars
    /\ [][settled.kind = "pending" /\ settled'.kind = "error"
            => /\ journeyData' = journeyData
               /\ activeWaypointIndex' = -1
               /\ ~isPlaying'
               /\ ~showPanel']_vars
    /\ [][journeyData' # journeyData
            => /\ isLoading /\ ~isLoading'
               /\ settled'.kind = "result"
               /\ showPanel']_vars

\* A search failed after a journey had been loaded.
C24_Witness ==
    /\ settled.kind = "error"
    /\ journeyData.loaded
    /\ ~isLoading
    /\ activeWaypointIndex = -1
    /\ ~showPanel

\* ------------------------------------------------------------------- C25
\* C25: the output of a 200 response of the cli-agent route is what the
\* subprocess wrote to standard output, with nothing of standard error in
\* it; when the subprocess exited with code 0 and wrote nothing to standard
\* output, it is the captured standard error.
C25_OutputIsStdout ==
    \A k \in 1..Len(rq.responses) :
        rq.responses[k].status = 200 =>
            IF rq.stdout # <<>>
            THEN rq.responses[k].output = toString(rq.stdout)
            ELSE /\ rq.code = "0"
                 /\ rq.responses[k].output = rq.errorOutput

\* The same with the standard output taken as the handler captured it: the
\* chunks, each decoded by itself, in arrival order.
OutputIsCapturedChunks ==
    \A k \in 1..Len(rq.responses) :
        rq.responses[k].status = 200 =>
            IF rq.output # <<>>
            THEN rq.responses[k].output = rq.output
            ELSE /\ rq.code = "0"
                 /\ rq.responses[k].output = rq.errorOutput

\* ------------------------------------------------------------------- C26
\* A click on a CLI agent of the dropdown that is not reported installed
\* leaves the selected provider as it is.
ClickOnMissingAgentIgnored ==
    [][\A p \in CliProviders :
          SelectCli(p) /\ ~isInstalled(cliAgents, p) => provider' = provider]_vars

\* C26: a CLI agent not reported installed cannot be used: a click on it
\* leaves the provider unchanged, and every search dispatched with a CLI
\* agent as its provider names one that was reported installed.
C26_OnlyInstalledAgentsUsed ==
    /\ ClickOnMissingAgentIgnored
    /\ [](onSearch.called /\ onSearch.config.provider \in CliProviders
            => isInstalled(cliAgents, onSearch.config.provider))

\* ------------------------------------------------------------------- C27
\* What a finished model-list fetch leaves behind, with the configured model
\* required to be in a non-empty list only under the condition `member`.
FetchLeaves(i, data, member) ==
    OllamaModelsFetched(i, data) =>
        /\ ~ollamaLoading'
        /\ ErrorAfter(data) # Null =>
              /\ ollamaModels' = <<>>
              /\ ollamaError' = ErrorAfter(data)
        /\ ModelsAfter(data) # <<>> /\ member =>
              ollamaConfig'.model \in Names(ModelsAfter(data))

\* C27: after a model-list fetch succeeds with a non-empty list the
\* configured model is a member of the list; after any fetch ollamaLoading
\* is false, and after a failed one the list is empty and an error is set.
C27_ModelInFetchedList ==
    [][\A i \in 1..MaxTagFetches, data \in TagsAnswers \cup {NoAnswer} :
          FetchLeaves(i, data, TRUE)]_vars

\* The same for the fetches during which the configured model was not edited.
ModelInListUnlessEdited ==
    [][\A i \in 1..MaxTagFetches, data \in TagsAnswers \cup {NoAnswer} :
          FetchLeaves(i, data, tagFetches[i].model = ollamaConfig.model)]_vars

\* ------------------------------------------------------------------- C28
\* C28: a request for ollama or for a CLI agent is dispatched whatever
\* optional fields it lacks: ollama is called at http://localhost:11434 when
\* the endpoint is absent or empty and with llama3 when the model is absent,
\* a CLI agent with 60 when the timeout is absent or zero; the relay runs a
\* body without timeout with 60.
C28_DefaultsForMissingFields ==
    /\ dPc \notin {"idle", "external"} /\ config.provider \in CliProviders \cup {"ollama"}
         => /\ Len(adapterCalls) = 1
            /\ Len(outbound) = 1
            /\ ~(outcome.kind = "error" /\ outcome.err \in MissingCredentialMessages)
    /\ dPc \notin {"idle", "external"} /\ config.provider = "ollama" =>
         /\ config.baseUrl \in {Absent, ""}
              => outbound[1].to = "http://localhost:11434/api/generate"
         /\ config.model = Absent => outbound[1].model = "llama3"
    /\ dPc \notin {"idle", "external"} /\ config.provider \in CliProviders =>
         /\ config.timeout \in {UndefinedTimeout, 0} => outbound[1].timeout = 60
         /\ rq.proc \notin {"none", "sent", "unreachable"}
              => rq.timeout = outbound[1].timeout
    /\ rq.proc \in {"running", "errored", "killed", "closed"}
         /\ rq.body.timeout = UndefinedTimeout
         => rq.timeout = 60

\* An ollama request with neither endpoint nor model has been dispatched.
C28_Witness ==
    /\ config.provider = "ollama"
    /\ config.baseUrl \in {Absent, ""}
    /\ config.model = Absent
    /\ Len(outbound) = 1
    /\ outbound[1].to = "http://localhost:11434/api/generate"
    /\ outbound[1].model = "llama3"

\* ------------------------------------------------------------------- C29
\* Timeouts given to the tool on its command line.
ToolTimeouts == {0, 60, 90, 2147454}

\* C29: for every timeout t >= 0 the subprocess is killed strictly later
\* than t seconds: by the relay, which spawned it, and by the tool.
C29_KillAfterScriptTimeout ==
    /\ rq.proc \in {"running", "errored", "killed", "closed"} /\ rq.timeout >= 0
         => rq.killAfterMs > rq.timeout * 1000
    /\ \A t \in ToolTimeouts : toolKillMs(t) > t * 1000

\* The same for the timeouts whose kill delay setTimeout takes as it is.
KillAfterScriptTimeoutInRange ==
    /\ rq.proc \in {"running", "errored", "killed", "closed"}
         /\ rq.timeout >= 0 /\ (rq.timeout + 30) <= 2147483647 \div 1000
         => rq.killAfterMs > rq.timeout * 1000
    /\ \A t \in ToolTimeouts : toolKillMs(t) > t * 1000

\* ------------------------------------------------------------------- C30
\* A request was made of the relay and has no response.
Unanswered ==
    \/ route.kind # "none" /\ route.responses = <<>>
    \/ reqs[1].proc # "none" /\ reqs[1].responses = <<>>

\* An OPTIONS request is answered 204 and a request that matches no route
\* 404, each with one response; only POST /api/cli-agent leads to a
\* subprocess.
RoutingAndSpawnOnlyForPost ==
    /\ [](route.method = "OPTIONS" =>
            /\ Len(route.responses) = 1 /\ route.responses[1].status = 204)
    /\ [](/\ route.kind # "none" /\ route.method # "OPTIONS"
          /\ ~(route.method = "GET" /\ route.url = <<"/api/cli-agents/check">>)
          /\ ~(route.method = "GET" /\ route.url[1] = "/api/ollama/tags")
          => /\ Len(route.responses) = 1 /\ route.responses[1].status = 404)
    /\ [][\A method \in Methods, url \in Urls :
            Request(method, url)
            /\ ~(method = "POST" /\ url = <<"/api/cli-agent">>)
            => reqs' = reqs]_vars
    /\ [][route' # route => reqs' = reqs]_vars

\* C30: the relay answers every request (it does not end with a request
\* unanswered), OPTIONS with 204 and a request that matches no route with
\* 404, and starts the subprocess only for POST /api/cli-agent.
C30_AnswersAndSpawnsOnlyForPost ==
    /\ RoutingAndSpawnOnlyForPost
    /\ [](~relayUp => ~Unanswered)

====
